---- MODULE Spec2Model ----
(***************************************************************************)
(* State-machine model of the catalog pipeline of tosolini/appstore:       *)
(* GitSync (src/git_sync/__init__.py), AppsDirectory.scan_apps             *)
(* (src/parsers/__init__.py) and the callers of both in src/main.py.       *)
(*                                                                         *)
(* Two threads run the code: the APScheduler BackgroundScheduler thread    *)
(* ("sched", main.py:241-244) runs init_sync, and the asyncio event loop   *)
(* ("http") runs the request handlers one at a time (every handler is an   *)
(* `async def` without an await around the sync calls).  Nothing in the    *)
(* code locks the cache directory or the catalog dictionary.               *)
(***************************************************************************)
EXTENDS Integers, Sequences, FiniteSets, TLC

(***************************************************************************)
(* Bounds of the model.                                                    *)
(***************************************************************************)
\* entries of the directory handed to scan_apps in SpecScan
MaxEntries == 3
\* environment changes (remote pushes, restarts with a changed REPOSITORIES
\* env, enable/disable requests) explored in one behaviour
MaxChanges == 2

Threads  == {"sched", "http"}
Names    == {"r1", "r2"}
RepoOrder == <<"r1", "r2">>        \* priority order of the repositories table
URLs     == {"u1", "u2"}
Branches == {"main", "dev"}
Folders  == {"Nginx", "redis"}     \* app directory names a remote may hold

Absent == [kind |-> "absent"]      \* no cache directory for the name

\* str.lower() on the directory names of the model (parsers/__init__.py:215)
Lower(s) ==
    CASE s = "Nginx" -> "nginx"
      [] s = "NGINX" -> "nginx"
      [] s = "Redis" -> "redis"
      [] OTHER       -> s

AppIds == {Lower(f) : f \in Folders}

VARIABLES
    db,            \* repositories table: name -> [url, branch, enabled]
    remote,        \* url -> [branches, apps]: what the git server holds
    cache,         \* name -> Absent or the checkout under cache_dir/name
    apps,          \* GitSync.apps: the catalog, app id -> App
    pc,            \* thread -> position in the code
    op,            \* thread -> operation in progress
    repositories,  \* thread -> argument list of the running sync
    idx,           \* thread -> index of the loop of sync_all
    result,        \* thread -> the result dict of sync_all
    listing,       \* thread -> os.listdir() of the scan in progress
    changes,       \* number of environment changes so far
    before,        \* thread -> catalog when its sync_all was entered (history)
    log,           \* thread -> the reconcile calls of its operation, with the
                   \* scan that followed each (history)
    lastScan,      \* thread -> [repo, found] of its latest scan (history)
    notFound,      \* ids get_app reported not-found while sched was in sync_all (history)
    scanInput,     \* SpecScan: the entries of the directory handed to scan_apps
    scanOutput,    \* SpecScan: what scan_apps returned for them
    manifest,      \* SpecParse: the text of docker-compose.yml on disk
    parsePc,       \* SpecParse: position of the thread inside parse_app
    loaded,        \* SpecParse: [text, compose] of the yaml.safe_load of parse_app
    parsed,        \* SpecParse: what parse_app returned
    arg,           \* argument of the ComposeSchema function under check
    ret            \* what the function returned for it

scanVars == <<scanInput, scanOutput>>

funcVars == <<manifest, parsePc, loaded, parsed, arg, ret>>

worldVars == <<db, remote, cache, apps, pc, op, repositories, idx, result,
               listing, changes, before, log, lastScan, notFound>>

vars == <<db, remote, cache, apps, pc, op, repositories, idx, result, listing,
          changes, before, log, lastScan, notFound, scanInput, scanOutput,
          manifest, parsePc, loaded, parsed, arg, ret>>

(***************************************************************************)
(* Values.                                                                 *)
(***************************************************************************)
None == [kind |-> "none"]                      \* Python's None
EmptyCatalog == [k \in {} |-> None]            \* {}
NoResult == [repositories_synced |-> 0, apps_loaded |-> 0, errors |-> <<>>]
NoScan == [repo |-> "none", found |-> EmptyCatalog]
NotScanned == [done |-> FALSE, apps |-> EmptyCatalog]
NotCalled == [done |-> FALSE]                  \* the function has not returned

\* a RepositoryModel row as the callers hand it to GitSync (db/models.py:11-23)
Source(n) == [name |-> n, url |-> db[n].url, branch |-> db[n].branch,
              enabled |-> db[n].enabled]

\* a checkout: origin url, remote-tracking refs (refs/remotes/origin/*) and the
\* app directories of the working tree's Apps/ folder
Checkout(u, b, a) == [kind |-> "repo", url |-> u, refs |-> {b}, apps |-> a]

\* a merge that keeps the entry the catalog has for an id
UpdateKeepFirst(a, b) ==
    [k \in DOMAIN a \cup DOMAIN b |-> IF k \in DOMAIN a THEN a[k] ELSE b[k]]

\* a merge that puts the new mapping in the place of the catalog
UpdateReplace(a, b) == b

\* dict.update (git_sync/__init__.py:128, main.py:674)
Update(a, b) ==
    [k \in DOMAIN a \cup DOMAIN b |-> IF k \in DOMAIN b THEN b[k] ELSE a[k]]

\* the enumeration orders os.listdir may return for a set of names
Orders(S) ==
    {s \in [1..Cardinality(S) -> S] : \A i, j \in 1..Cardinality(S) : i # j => s[i] # s[j]}

(***************************************************************************)
(* ManifestParser and ManifestScanner (src/parsers/__init__.py).           *)
(* A directory entry is [name, isdir, manifest, parses]: whether it is a   *)
(* directory, whether docker-compose.yml is a file in it, and whether      *)
(* parse_app gets an App out of that file.                                 *)
(***************************************************************************)
\* parse_app: an App, or None on any exception, empty document or no service
ParseApp(e, app_id, repository_source) ==
    IF e.parses
    THEN [app_id |-> app_id, repository_source |-> repository_source,
          source_dir |-> e.name]
    ELSE None

\* an iteration that files the App under the name of its directory as it is
ScanEntryVerbatim(acc, e, repository_source) ==
    IF ~e.isdir THEN acc
    ELSE IF ~e.manifest THEN acc
    ELSE LET app == ParseApp(e, Lower(e.name), repository_source)
         IN IF app # None THEN Update(acc, [k \in {e.name} |-> app]) ELSE acc

\* one iteration of the loop of scan_apps
ScanEntry(acc, e, repository_source) ==
    IF ~e.isdir THEN acc
    ELSE IF ~e.manifest THEN acc
    ELSE LET app_id == Lower(e.name)
             app == ParseApp(e, app_id, repository_source)
         IN IF app # None THEN Update(acc, [k \in {app_id} |-> app]) ELSE acc

RECURSIVE ScanLoop(_, _, _)
ScanLoop(entries, repository_source, acc) ==
    IF entries = <<>> THEN acc
    ELSE ScanLoop(Tail(entries), repository_source,
                  ScanEntry(acc, Head(entries), repository_source))

\* a scan that gives up at the first entry that does not parse
RECURSIVE ScanLoopAbort(_, _, _)
ScanLoopAbort(entries, repository_source, acc) ==
    IF entries = <<>> THEN acc
    ELSE LET e == Head(entries) IN
         IF e.isdir /\ e.manifest /\ ~e.parses THEN acc
         ELSE ScanLoopAbort(Tail(entries), repository_source,
                            ScanEntry(acc, e, repository_source))

ScanAppsAbort(entries, repository_source) ==
    ScanLoopAbort(entries, repository_source, EmptyCatalog)

\* AppsDirectory.scan_apps over the entries in enumeration order
ScanApps(entries, repository_source) ==
    ScanLoop(entries, repository_source, EmptyCatalog)

(***************************************************************************)
(* GitSync.clone_or_update and its helpers (src/git_sync/__init__.py).     *)
(* Each operator gives the set of outcomes [ok, cache] the git operation   *)
(* can have: the network may fail at any call.                             *)
(***************************************************************************)
\* _remote_has_branch: GitPython's origin.refs lists the remote-tracking refs
\* of the local checkout; no request goes to the server
RemoteHasBranch(c, branch) == branch \in c.refs

\* a clone that reports success whatever became of the transfer
CloneRepoAlwaysTrue(src) ==
    LET rem == remote[src.url] IN
    {[ok |-> TRUE, cache |-> Absent]}
    \cup (IF src.branch \in rem.branches
          THEN {[ok |-> TRUE, cache |-> Checkout(src.url, src.branch, rem.apps)]}
          ELSE {})

\* _clone_repo into a path that does not exist.  git clone removes the
\* directory it made when the transfer fails; when the transfer succeeds and
\* the checkout fails it exits non-zero and leaves the directory.  The except
\* clause removes nothing.
CloneRepo(src) ==
    LET rem == remote[src.url] IN
    {[ok |-> FALSE, cache |-> Absent]}
    \cup (IF src.branch \in rem.branches
          THEN {[ok |-> TRUE,  cache |-> Checkout(src.url, src.branch, rem.apps)],
                [ok |-> FALSE, cache |-> Checkout(src.url, src.branch, {})]}
          ELSE {})

\* an update that removes the checkout when the branch check fails
UpdateRepoRemoving(src, c) ==
    IF ~RemoteHasBranch(c, src.branch)
    THEN {[ok |-> FALSE, cache |-> Absent, at |-> "branch_check"]}
    ELSE {[ok |-> FALSE, cache |-> c, at |-> "pull"]}
         \cup (IF src.branch \in remote[src.url].branches
               THEN {[ok |-> TRUE, at |-> "pull",
                      cache |-> [c EXCEPT !.apps = remote[src.url].apps]]}
               ELSE {})

\* the branch check and the pull of an existing checkout whose url matches
\* (lines 56-65); `at` is the line the call returns from: the failed branch
\* check, or the pull
UpdateRepo(src, c) ==
    IF ~RemoteHasBranch(c, src.branch)
    THEN {[ok |-> FALSE, cache |-> c, at |-> "branch_check"]}
    ELSE {[ok |-> FALSE, cache |-> c, at |-> "pull"]}
         \cup (IF src.branch \in remote[src.url].branches
               THEN {[ok |-> TRUE, at |-> "pull",
                      cache |-> [c EXCEPT !.apps = remote[src.url].apps]]}
               ELSE {})

(***************************************************************************)
(* Callers: src/main.py.                                                   *)
(***************************************************************************)
\* load_config_repositories: the enabled rows, by priority
LoadConfigRepositories ==
    SelectSeq([i \in 1..Len(RepoOrder) |-> Source(RepoOrder[i])],
              LAMBDA r : r.enabled)

\* a loop that does not skip the disabled sources
NextEnabledAny(repos, i) == i

\* `for repo_config in repositories: if not repo_config.enabled: continue`:
\* the first index from i on that the loop body runs for
RECURSIVE NextEnabled(_, _)
NextEnabled(repos, i) ==
    IF i > Len(repos) THEN i
    ELSE IF ~repos[i].enabled THEN NextEnabled(repos, i + 1)
    ELSE i

\* position of the loop of sync_all at index i
LoopPc(repos, i) == IF i > Len(repos) THEN "sa_done" ELSE "cu_begin"

Cur(p) == repositories[p][idx[p]]

\* the thread's locals and history when it runs nothing
Idle(p) ==
    /\ pc' = [pc EXCEPT ![p] = "idle"]
    /\ op' = [op EXCEPT ![p] = "none"]
    /\ repositories' = [repositories EXCEPT ![p] = <<>>]
    /\ idx' = [idx EXCEPT ![p] = 1]
    /\ result' = [result EXCEPT ![p] = NoResult]
    /\ listing' = [listing EXCEPT ![p] = {}]
    /\ before' = [before EXCEPT ![p] = EmptyCatalog]
    /\ log' = [log EXCEPT ![p] = <<>>]
    /\ lastScan' = [lastScan EXCEPT ![p] = NoScan]

(***************************************************************************)
(* GitSync.sync_all, lines 105-113: the result dict, self.apps.clear() and *)
(* the entry into the loop.                                                *)
(***************************************************************************)
SyncAllEnter(p, repos, prior) ==
    LET i == NextEnabled(repos, 1) IN
    /\ apps' = EmptyCatalog
    /\ op' = [op EXCEPT ![p] = "sync_all"]
    /\ repositories' = [repositories EXCEPT ![p] = repos]
    /\ idx' = [idx EXCEPT ![p] = i]
    /\ pc' = [pc EXCEPT ![p] = LoopPc(repos, i)]
    /\ result' = [result EXCEPT ![p] = NoResult]
    /\ listing' = [listing EXCEPT ![p] = {}]
    /\ before' = [before EXCEPT ![p] = prior]
    /\ log' = [log EXCEPT ![p] = <<>>]
    /\ lastScan' = [lastScan EXCEPT ![p] = NoScan]
    /\ notFound' = IF p = "sched" THEN {} ELSE notFound

\* init_sync on the scheduler thread
InitSync ==
    /\ UNCHANGED <<scanVars, funcVars>>
    /\ pc["sched"] = "idle"
    /\ SyncAllEnter("sched", LoadConfigRepositories, apps)
    /\ UNCHANGED <<db, remote, cache, changes>>

\* another thread is inside sync_all while thread p is inside an operation
Overlapped(p) ==
    \E q \in Threads \ {p} : op[q] = "sync_all" /\ pc[q] # "sa_done"

\* what the caller of clone_or_update does with its return value:
\* sync_all lines 117-121, sync_repository lines 663-679
AfterReconcile(p, ok, path) ==
    LET src == Cur(p)
        i == NextEnabled(repositories[p], idx[p] + 1)
    IN
    /\ log' = [log EXCEPT ![p] =
                  Append(@, [name |-> src.name, ok |-> ok, path |-> path,
                             found |-> 0, scanned |-> EmptyCatalog,
                             overlap |-> Overlapped(p)])]
    /\ IF op[p] = "sync_all"
       THEN IF ok
            THEN /\ result' = [result EXCEPT ![p].repositories_synced = @ + 1]
                 /\ pc' = [pc EXCEPT ![p] = "scan_list"]
                 /\ idx' = idx
            ELSE /\ result' = [result EXCEPT ![p].errors =
                                  Append(@, <<"Failed to sync", src.name>>)]
                 /\ idx' = [idx EXCEPT ![p] = i]
                 /\ pc' = [pc EXCEPT ![p] = LoopPc(repositories[p], i)]
       ELSE /\ pc' = [pc EXCEPT ![p] = IF ok THEN "scan_list" ELSE "done"]
            /\ UNCHANGED <<result, idx>>

\* clone_or_update, lines 38-65: the path taken at repo_path.exists(), the url
\* comparison with shutil.rmtree, and the branch check with the pull
CuBegin(p) ==
    /\ UNCHANGED <<scanVars, funcVars>>
    /\ pc[p] = "cu_begin"
    /\ LET src == Cur(p)
           c == cache[src.name]
       IN IF c = Absent
          THEN /\ pc' = [pc EXCEPT ![p] = "cu_clone"]
               /\ UNCHANGED <<cache, log, result, idx>>
          ELSE IF c.url # src.url
          THEN /\ cache' = [cache EXCEPT ![src.name] = Absent]
               /\ pc' = [pc EXCEPT ![p] = "cu_reclone"]
               /\ UNCHANGED <<log, result, idx>>
          ELSE \E o \in UpdateRepo(src, c) :
                  /\ cache' = [cache EXCEPT ![src.name] = o.cache]
                  /\ AfterReconcile(p, o.ok, o.at)
    /\ UNCHANGED <<db, remote, apps, op, repositories, listing, changes, before,
                   lastScan, notFound>>

\* _clone_repo called from line 67 (no cache) or line 54 (after rmtree).  git
\* clone refuses a destination that exists and is not empty, which happens
\* when another thread cloned the repository in between.
CuClone(p) ==
    /\ UNCHANGED <<scanVars, funcVars>>
    /\ pc[p] \in {"cu_clone", "cu_reclone"}
    /\ LET src == Cur(p)
           c == cache[src.name]
           path == IF pc[p] = "cu_clone" THEN "clone" ELSE "reclone"
       IN \E o \in (IF c = Absent THEN CloneRepo(src) ELSE {[ok |-> FALSE, cache |-> c]}) :
             /\ cache' = [cache EXCEPT ![src.name] = o.cache]
             /\ AfterReconcile(p, o.ok, path)
    /\ UNCHANGED <<db, remote, apps, op, repositories, listing, changes, before,
                   lastScan, notFound>>

\* the caller's step after the scan of one repository: the next iteration of
\* sync_all, or the response of sync_repository
AfterScan(p) ==
    LET i == NextEnabled(repositories[p], idx[p] + 1) IN
    IF op[p] = "sync_all"
    THEN /\ idx' = [idx EXCEPT ![p] = i]
         /\ pc' = [pc EXCEPT ![p] = LoopPc(repositories[p], i)]
    ELSE /\ pc' = [pc EXCEPT ![p] = "done"]
         /\ idx' = idx

\* the directory entries scan_apps meets for the names it listed: a name whose
\* directory is gone by the time it is looked at is not a directory
DirEntries(order, c) ==
    [i \in 1..Len(order) |->
        LET there == c # Absent /\ order[i] \in c.apps IN
        [name |-> order[i], isdir |-> there, manifest |-> there, parses |-> there]]

\* `if apps_dir.exists()` (git_sync/__init__.py:124-126, main.py:670-671) and
\* os.listdir of scan_apps (parsers/__init__.py:200-203)
ScanList(p) ==
    /\ UNCHANGED <<scanVars, funcVars>>
    /\ pc[p] = "scan_list"
    /\ LET c == cache[Cur(p).name] IN
       IF c = Absent \/ c.apps = {}
       THEN /\ AfterScan(p)
            /\ listing' = listing
       ELSE /\ listing' = [listing EXCEPT ![p] = c.apps]
            /\ pc' = [pc EXCEPT ![p] = "scan_parse"]
            /\ idx' = idx
    /\ UNCHANGED <<db, remote, cache, apps, op, repositories, result, changes,
                   before, log, lastScan, notFound>>

\* the loop of scan_apps (parsers/__init__.py:203-222) and the merge of its
\* result: self.apps.update(apps_found) and apps_loaded (git_sync/__init__.py:
\* 128-129), git_sync.apps.update(apps_found) (main.py:674)
ScanParse(p) ==
    /\ UNCHANGED <<scanVars, funcVars>>
    /\ pc[p] = "scan_parse"
    /\ \E order \in Orders(listing[p]) :
          LET name == Cur(p).name
              found == ScanApps(DirEntries(order, cache[name]), name)
          IN /\ apps' = Update(apps, found)
             /\ result' = IF op[p] = "sync_all"
                          THEN [result EXCEPT ![p].apps_loaded =
                                   @ + Cardinality(DOMAIN found)]
                          ELSE result
             /\ log' = [log EXCEPT ![p][Len(log[p])].found = Cardinality(DOMAIN found),
                                    ![p][Len(log[p])].scanned = found]
             /\ lastScan' = [lastScan EXCEPT ![p] = [repo |-> name, found |-> found]]
    /\ listing' = [listing EXCEPT ![p] = {}]
    /\ AfterScan(p)
    /\ UNCHANGED <<db, remote, cache, op, repositories, changes, before, notFound>>

\* sync_all returns (lines 132-135) or the handler responds
Return(p) ==
    /\ UNCHANGED <<scanVars, funcVars>>
    /\ pc[p] \in {"sa_done", "done"}
    /\ Idle(p)
    /\ UNCHANGED <<db, remote, cache, apps, changes, notFound>>

\* POST /api/repositories/{id}/sync up to the call of clone_or_update
\* (main.py:643-663): a disabled repository is refused with 400
SyncRepository(r) ==
    /\ UNCHANGED <<scanVars, funcVars>>
    /\ pc["http"] = "idle"
    /\ db[r].enabled
    /\ op' = [op EXCEPT !["http"] = "sync_repository"]
    /\ repositories' = [repositories EXCEPT !["http"] = <<Source(r)>>]
    /\ idx' = [idx EXCEPT !["http"] = 1]
    /\ pc' = [pc EXCEPT !["http"] = "cu_begin"]
    /\ UNCHANGED <<db, remote, cache, apps, result, listing, changes, before, log,
                   lastScan, notFound>>

\* POST /api/settings/cache/clear, first half: GitSync.clear_cache removes every
\* directory under the cache root and empties the catalog
ClearCache ==
    /\ UNCHANGED <<scanVars, funcVars>>
    /\ pc["http"] = "idle"
    /\ cache' = [n \in Names |-> Absent]
    /\ apps' = EmptyCatalog
    /\ op' = [op EXCEPT !["http"] = "clear_cache"]
    /\ pc' = [pc EXCEPT !["http"] = "cc_sync"]
    /\ UNCHANGED <<db, remote, repositories, idx, result, listing, changes, before,
                   log, lastScan, notFound>>

\* second half: load_config_repositories and sync_all (main.py:842-845)
ClearCacheSync ==
    /\ UNCHANGED <<scanVars, funcVars>>
    /\ pc["http"] = "cc_sync"
    /\ SyncAllEnter("http", LoadConfigRepositories, apps)
    /\ UNCHANGED <<db, remote, cache, changes>>

\* GET /apps/{app_id}: GitSync.get_app is self.apps.get(app_id); the history
\* keeps the ids it reported not-found while the scheduler is inside sync_all
GetApp(k) ==
    /\ UNCHANGED <<scanVars, funcVars>>
    /\ pc["http"] = "idle"
    /\ op["sched"] = "sync_all" /\ pc["sched"] # "sa_done"
    /\ k \notin DOMAIN apps
    /\ notFound' = notFound \cup {k}
    /\ UNCHANGED <<db, remote, cache, apps, pc, op, repositories, idx, result,
                   listing, changes, before, log, lastScan>>

(***************************************************************************)
(* The environment: the git servers, the operator's requests, restarts.    *)
(***************************************************************************)
Toggle(S, x) == IF x \in S THEN S \ {x} ELSE S \cup {x}

\* a push to the server behind url u adds or removes one app directory or
\* one branch
RemotePush(u) ==
    /\ UNCHANGED <<scanVars, funcVars>>
    /\ changes < MaxChanges
    /\ changes' = changes + 1
    /\ \/ \E f \in Folders : remote' = [remote EXCEPT ![u].apps = Toggle(@, f)]
       \/ \E b \in Branches : remote' = [remote EXCEPT ![u].branches = Toggle(@, b)]
    /\ UNCHANGED <<db, cache, apps, pc, op, repositories, idx, result, listing,
                   before, log, lastScan, notFound>>

\* PUT /api/repositories/{id} with enabled (main.py:586-611)
UpdateRepository(r) ==
    /\ UNCHANGED <<scanVars, funcVars>>
    /\ pc["http"] = "idle"
    /\ changes < MaxChanges
    /\ changes' = changes + 1
    /\ db' = [db EXCEPT ![r].enabled = ~@]
    /\ UNCHANGED <<remote, cache, apps, pc, op, repositories, idx, result, listing,
                   before, log, lastScan, notFound>>

\* the process starts again with the cache directory of the last run:
\* init_repositories takes url and branch of a row from the REPOSITORIES env
\* (main.py:94-109), GitSync starts with an empty catalog (git_sync/__init__.py:
\* 29) and startup_event runs init_sync on the event loop (main.py:247)
Restart ==
    /\ UNCHANGED <<scanVars, funcVars>>
    /\ \A p \in Threads : pc[p] = "idle"
    /\ changes < MaxChanges
    /\ changes' = changes + 1
    /\ \E r \in Names, u \in URLs, b \in Branches :
          db' = [db EXCEPT ![r].url = u, ![r].branch = b]
    /\ SyncAllEnter("http", LoadConfigRepositories', EmptyCatalog)
    /\ UNCHANGED <<remote, cache>>

\* sync_all handed the rows of the table as they are, disabled ones included
\* (the catalog interface sync_all(sources) of GitSync, used directly)
AllRepositories == [i \in 1..Len(RepoOrder) |-> Source(RepoOrder[i])]

SyncAllCall ==
    /\ UNCHANGED <<scanVars, funcVars>>
    /\ pc["http"] = "idle"
    /\ SyncAllEnter("http", AllRepositories, apps)
    /\ UNCHANGED <<db, remote, cache, changes>>

\* no call of parse_app or of a ComposeSchema function is under check
InitFunc ==
    /\ manifest = None
    /\ parsePc = "idle"
    /\ loaded = None
    /\ parsed = NotCalled
    /\ arg = None
    /\ ret = NotCalled

InitThreads ==
    /\ pc = [p \in Threads |-> "idle"]
    /\ op = [p \in Threads |-> "none"]
    /\ repositories = [p \in Threads |-> <<>>]
    /\ idx = [p \in Threads |-> 1]
    /\ result = [p \in Threads |-> NoResult]
    /\ listing = [p \in Threads |-> {}]
    /\ before = [p \in Threads |-> EmptyCatalog]
    /\ log = [p \in Threads |-> <<>>]
    /\ lastScan = [p \in Threads |-> NoScan]
    /\ notFound = {}

InitLocals ==
    /\ InitThreads
    /\ scanInput = <<>>
    /\ scanOutput = NotScanned
    /\ InitFunc

InitWorld ==
    /\ db = [n \in Names |->
               [url |-> IF n = "r1" THEN "u1" ELSE "u2", branch |-> "main",
                enabled |-> TRUE]]
    /\ remote = [u \in URLs |->
               [branches |-> IF u = "u1" THEN {"main", "dev"} ELSE {"main"},
                apps |-> IF u = "u1" THEN {"Nginx", "redis"} ELSE {"Nginx"}]]
    /\ apps = EmptyCatalog
    /\ changes = 0

\* a first start: no cache directory yet
Init ==
    /\ InitWorld
    /\ cache = [n \in Names |-> Absent]
    /\ InitLocals

\* the operations of the two threads, interleaved step by step
NextConcurrent ==
    \/ InitSync
    \/ \E p \in Threads : CuBegin(p)
    \/ \E p \in Threads : CuClone(p)
    \/ \E p \in Threads : ScanList(p)
    \/ \E p \in Threads : ScanParse(p)
    \/ \E p \in Threads : Return(p)
    \/ \E r \in Names : SyncRepository(r)
    \/ ClearCache
    \/ ClearCacheSync
    \/ \E k \in AppIds : GetApp(k)

\* at most one thread is inside an operation
Serial == Cardinality({p \in Threads : pc[p] # "idle"}) <= 1

(***************************************************************************)
(* SpecSerial: any sequence of operations, one at a time, in a changing    *)
(* environment.                                                            *)
(***************************************************************************)
NextSerial ==
    \/ InitSync /\ Serial'
    \/ \E p \in Threads : CuBegin(p)
    \/ \E p \in Threads : CuClone(p)
    \/ \E p \in Threads : ScanList(p)
    \/ \E p \in Threads : ScanParse(p)
    \/ \E p \in Threads : Return(p)
    \/ \E r \in Names : SyncRepository(r) /\ Serial'
    \/ ClearCache /\ Serial'
    \/ ClearCacheSync
    \/ \E k \in AppIds : GetApp(k)
    \/ \E u \in URLs : RemotePush(u)
    \/ \E r \in Names : UpdateRepository(r)
    \/ Restart
    \/ SyncAllCall /\ Serial'

SpecSerial == Init /\ [][NextSerial]_vars

(***************************************************************************)
(* SpecConcurrent: the scheduler thread and the event loop interleave at   *)
(* every step, in an environment that does not change.                     *)
(***************************************************************************)
SpecConcurrent == Init /\ [][NextConcurrent]_vars

(***************************************************************************)
(* SpecScan: AppsDirectory.scan_apps applied to one directory, for every   *)
(* directory of at most MaxEntries entries and every enumeration order.    *)
(***************************************************************************)
ScanNames == {"Nginx", "NGINX", "redis", "Redis"}

\* a plain file, a directory without docker-compose.yml, a directory whose
\* manifest does not parse, a directory whose manifest parses
EntryKinds ==
    {[isdir |-> FALSE, manifest |-> FALSE, parses |-> FALSE],
     [isdir |-> TRUE,  manifest |-> FALSE, parses |-> FALSE],
     [isdir |-> TRUE,  manifest |-> TRUE,  parses |-> FALSE],
     [isdir |-> TRUE,  manifest |-> TRUE,  parses |-> TRUE]}

Entries ==
    {[name |-> n, isdir |-> k.isdir, manifest |-> k.manifest, parses |-> k.parses] :
        n \in ScanNames, k \in EntryKinds}

\* os.listdir results: the names of one directory are distinct
ScanInputs ==
    UNION {{s \in [1..n -> Entries] :
               \A i, j \in 1..n : i # j => s[i].name # s[j].name} :
           n \in 0..MaxEntries}

InitScan ==
    /\ InitWorld
    /\ cache = [n \in Names |-> Absent]
    /\ pc = [p \in Threads |-> "idle"]
    /\ op = [p \in Threads |-> "none"]
    /\ repositories = [p \in Threads |-> <<>>]
    /\ idx = [p \in Threads |-> 1]
    /\ result = [p \in Threads |-> NoResult]
    /\ listing = [p \in Threads |-> {}]
    /\ before = [p \in Threads |-> EmptyCatalog]
    /\ log = [p \in Threads |-> <<>>]
    /\ lastScan = [p \in Threads |-> NoScan]
    /\ notFound = {}
    /\ scanInput \in ScanInputs
    /\ scanOutput = NotScanned
    /\ InitFunc

\* scan_apps(apps_dir, "r1") on the directory
ScanDir ==
    /\ ~scanOutput.done
    /\ scanOutput' = [done |-> TRUE, apps |-> ScanApps(scanInput, "r1")]
    /\ UNCHANGED <<db, remote, cache, apps, pc, op, repositories, idx, result,
                   listing, changes, before, log, lastScan, notFound, scanInput>>
    /\ UNCHANGED funcVars

NextScan == ScanDir

SpecScan == InitScan /\ [][NextScan]_vars

\* the model in its initial state, nothing running: the specifications of the
\* single functions below start here
InitIdle ==
    /\ InitWorld
    /\ cache = [n \in Names |-> Absent]
    /\ InitThreads
    /\ scanInput = <<>>
    /\ scanOutput = NotScanned

(***************************************************************************)
(* SpecParse: DockerComposeParser.parse_app on one manifest file, which a  *)
(* git pull or re-clone on the other thread may rewrite at any moment.     *)
(* Of an App the model keeps app_id, repository_source, main_service, the  *)
(* keys of services and compose_content; the presentation metadata         *)
(* (title, icon, ...) is left out.                                         *)
(***************************************************************************)
\* services a manifest declares
MaxServices == 2

ServiceNames == {"web", "db"}

\* the value of the services key: the key is absent, is null, or is a mapping
\* in document order whose values are mappings (isdict) or something else
ServiceSeqs ==
    UNION {{sv \in [1..n -> [name : ServiceNames, isdict : BOOLEAN]] :
               \A i, j \in 1..n : i # j => sv[i].name # sv[j].name} :
           n \in 0..MaxServices}

ServicesValues ==
    {[kind |-> "absent", items |-> <<>>], [kind |-> "null", items |-> <<>>]}
    \cup {[kind |-> "map", items |-> sv] : sv \in ServiceSeqs}

\* x-casaos.main: "" when the block or the key is absent
MainValues == {""} \cup ServiceNames

\* two byte sequences (rev) exist for every document, e.g. with and without
\* a comment line
Revs == {1, 2}

\* the content of docker-compose.yml: no file, text that is not YAML, an
\* empty document, or a document
Texts ==
    {[kind |-> k, rev |-> r] : k \in {"invalid", "empty"}, r \in Revs}
    \cup {[kind |-> "doc", rev |-> r, main |-> m, services |-> sv] :
             r \in Revs, m \in MainValues, sv \in ServicesValues}

Missing == [kind |-> "missing"]

Raises == [kind |-> "raises"]                 \* an exception is raised

\* open() and yaml.safe_load (parsers/__init__.py:25-26): the structure of
\* the document, without its bytes
SafeLoad(text) ==
    CASE text.kind = "missing" -> Raises
      [] text.kind = "invalid" -> Raises
      [] text.kind = "empty"   -> None
      [] OTHER -> [kind |-> "compose", main |-> text.main,
                   services |-> text.services]

\* a resolution that falls back to the last service of the document
MainServiceLast(compose) ==
    IF compose.main # "" THEN compose.main
    ELSE IF compose.services.kind = "absent" THEN ""
    ELSE IF compose.services.kind = "null" THEN "raises"
    ELSE IF Len(compose.services.items) = 0 THEN ""
    ELSE compose.services.items[Len(compose.services.items)].name

\* main-service resolution (parsers/__init__.py:32-39); "" is falsy
MainService(compose) ==
    IF compose.main # "" THEN compose.main
    ELSE IF compose.services.kind = "absent" THEN ""
    ELSE IF compose.services.kind = "null" THEN "raises"
    ELSE IF Len(compose.services.items) = 0 THEN ""
    ELSE compose.services.items[1].name

\* the services loop (parsers/__init__.py:70-87): a ServiceMetadata for every
\* service whose definition is a mapping
ParsedServices(compose) ==
    LET sv == compose.services.items
        names == {sv[i].name : i \in {j \in 1..Len(sv) : sv[j].isdict}}
    IN [n \in names |-> [container_name |-> n]]

\* parse_app from line 28 on, given the loaded document and the file as it
\* is when it is opened the second time (line 90)
BuildApp(compose, text, app_id, repository_source) ==
    IF compose = Raises \/ compose = None THEN None
    ELSE IF MainService(compose) \in {"", "raises"} THEN None
    ELSE IF compose.services.kind = "null" THEN None
    ELSE IF text.kind = "missing" THEN None
    ELSE [kind |-> "app", app_id |-> app_id,
          repository_source |-> repository_source,
          main_service |-> MainService(compose),
          services |-> ParsedServices(compose),
          compose_content |-> text]

InitParse ==
    /\ InitIdle
    /\ manifest \in Texts
    /\ parsePc = "idle"
    /\ loaded = None
    /\ parsed = NotCalled
    /\ arg = None
    /\ ret = NotCalled

\* lines 24-26: the file is opened and loaded
ParseOpen ==
    /\ parsePc = "idle"
    /\ loaded' = [text |-> manifest, compose |-> SafeLoad(manifest)]
    /\ parsePc' = "loaded"
    /\ UNCHANGED <<worldVars, scanVars, manifest, parsed, arg, ret>>

\* lines 28-114: the App is built; the file is opened again for the raw text
ParseBuild ==
    /\ parsePc = "loaded"
    /\ parsed' = [done |-> TRUE,
                  app |-> BuildApp(loaded.compose, manifest, "nginx", "r1")]
    /\ parsePc' = "done"
    /\ UNCHANGED <<worldVars, scanVars, manifest, loaded, arg, ret>>

\* a pull or a re-clone of the repository by the other thread rewrites or
\* removes the file (git_sync/__init__.py:53-54, 64)
PullRewrites ==
    /\ parsePc # "done"
    /\ manifest' \in (Texts \cup {Missing}) \ {manifest}
    /\ UNCHANGED <<worldVars, scanVars, parsePc, loaded, parsed, arg, ret>>

NextParse ==
    \/ ParseOpen
    \/ ParseBuild
    \/ PullRewrites

SpecParse == InitParse /\ [][NextParse]_vars

(***************************************************************************)
(* Strings.  A Python str whose characters the code looks at is a sequence *)
(* of one-character strings: PORT is <<"P", "O", "R", "T">>.               *)
(***************************************************************************)
LowerCase == <<"a", "b", "c", "d", "e", "f", "g", "h", "i", "j", "k", "l", "m",
               "n", "o", "p", "q", "r", "s", "t", "u", "v", "w", "x", "y", "z">>
UpperCase == <<"A", "B", "C", "D", "E", "F", "G", "H", "I", "J", "K", "L", "M",
               "N", "O", "P", "Q", "R", "S", "T", "U", "V", "W", "X", "Y", "Z">>

\* case folding of one character, as re.IGNORECASE compares them
Upper(c) ==
    IF \E i \in 1..Len(LowerCase) : LowerCase[i] = c
    THEN UpperCase[CHOOSE i \in 1..Len(LowerCase) : LowerCase[i] = c]
    ELSE c

\* str.startswith(c) for a one-character prefix
StartsWith(str, c) == Len(str) > 0 /\ str[1] = c

\* the index of the first occurrence of character c in str, 0 when absent
\* (what `c in str` and str.split(c, 1) look for)
Find(str, c) ==
    IF \E i \in 1..Len(str) : str[i] = c
    THEN CHOOSE i \in 1..Len(str) :
            str[i] = c /\ \A j \in 1..(i - 1) : str[j] # c
    ELSE 0

\* str.split(c): the parts between the occurrences of c
RECURSIVE Split(_, _)
Split(str, c) ==
    LET i == Find(str, c)
    IN IF i = 0 THEN <<str>>
       ELSE <<SubSeq(str, 1, i - 1)>> \o Split(SubSeq(str, i + 1, Len(str)), c)

\* str.strip(chars): leading and trailing characters of the set removed
RECURSIVE Strip(_, _)
Strip(str, chars) ==
    IF str = <<>> THEN str
    ELSE IF str[1] \in chars THEN Strip(Tail(str), chars)
    ELSE IF str[Len(str)] \in chars THEN Strip(SubSeq(str, 1, Len(str) - 1), chars)
    ELSE str

(***************************************************************************)
(* ComposeSchema.infer_type (parsers/compose_schema.py:75-89).             *)
(***************************************************************************)
\* a regular expression of TYPE_PATTERNS: literal text, with or without a
\* closing $ anchor
Pattern(text, anchored) == [text |-> text, anchored |-> anchored]

\* TYPE_PATTERNS, in the insertion order of the dict
TYPE_PATTERNS ==
    <<[ptype |-> "port",
       patterns |-> <<Pattern(<<"P", "O", "R", "T">>, FALSE), Pattern(<<"_", "P", "O", "R", "T">>, TRUE)>>],
      [ptype |-> "int",
       patterns |-> <<Pattern(<<"P", "U", "I", "D">>, FALSE), Pattern(<<"P", "G", "I", "D">>, FALSE),
                      Pattern(<<"U", "I", "D">>, FALSE), Pattern(<<"G", "I", "D">>, FALSE),
                      Pattern(<<"_", "I", "D">>, TRUE), Pattern(<<"C", "O", "U", "N", "T">>, FALSE)>>],
      [ptype |-> "path",
       patterns |-> <<Pattern(<<"P", "A", "T", "H">>, FALSE), Pattern(<<"D", "I", "R">>, FALSE),
                      Pattern(<<"V", "O", "L", "U", "M", "E">>, FALSE)>>],
      [ptype |-> "bool",
       patterns |-> <<Pattern(<<"E", "N", "A", "B", "L", "E", "D">>, FALSE), Pattern(<<"D", "E", "B", "U", "G">>, FALSE),
                      Pattern(<<"S", "E", "C", "U", "R", "E">>, FALSE)>>]>>

\* the pattern matches the characters of str that start at index i
MatchAt(pattern, str, i) ==
    /\ i + Len(pattern.text) - 1 <= Len(str)
    /\ \A j \in 1..Len(pattern.text) :
          Upper(str[i + j - 1]) = Upper(pattern.text[j])

\* re.search(pattern, env_name, re.IGNORECASE)
Search(pattern, str) ==
    IF pattern.anchored
    THEN Len(str) >= Len(pattern.text)
         /\ MatchAt(pattern, str, Len(str) - Len(pattern.text) + 1)
    ELSE \E i \in 1..Len(str) : MatchAt(pattern, str, i)

\* the loop of infer_type from class i on, the last matching class winning
RECURSIVE InferFromLast(_, _, _)
InferFromLast(env_name, i, found) ==
    IF i > Len(TYPE_PATTERNS) THEN found
    ELSE IF \E k \in 1..Len(TYPE_PATTERNS[i].patterns) :
               Search(TYPE_PATTERNS[i].patterns[k], env_name)
    THEN InferFromLast(env_name, i + 1, TYPE_PATTERNS[i].ptype)
    ELSE InferFromLast(env_name, i + 1, found)

\* the loop of infer_type from class i on: the first class with a matching
\* pattern returns
RECURSIVE InferFrom(_, _)
InferFrom(env_name, i) ==
    IF i > Len(TYPE_PATTERNS) THEN "string"
    ELSE IF \E k \in 1..Len(TYPE_PATTERNS[i].patterns) :
               Search(TYPE_PATTERNS[i].patterns[k], env_name)
    THEN TYPE_PATTERNS[i].ptype
    ELSE InferFrom(env_name, i + 1)

infer_type_last(env_name) == InferFromLast(env_name, 1, "string")

infer_type(env_name) == InferFrom(env_name, 1)

(***************************************************************************)
(* SpecInfer: infer_type on every key name made of at most MaxSegments     *)
(* pieces.                                                                 *)
(***************************************************************************)
MaxSegments == 2

Segments ==
    {<<"P", "O", "R", "T">>,
     <<"p", "o", "r", "t">>,
     <<"_", "P", "O", "R", "T">>,
     <<"P", "U", "I", "D">>,
     <<"P", "G", "I", "D">>,
     <<"U", "I", "D">>,
     <<"G", "I", "D">>,
     <<"_", "I", "D">>,
     <<"C", "O", "U", "N", "T">>,
     <<"P", "A", "T", "H">>,
     <<"D", "I", "R">>,
     <<"V", "O", "L", "U", "M", "E">>,
     <<"E", "N", "A", "B", "L", "E", "D">>,
     <<"D", "E", "B", "U", "G">>,
     <<"S", "E", "C", "U", "R", "E">>,
     <<"T", "Z">>,
     <<"I", "d">>,
     <<"X">>,
     <<"_">>}

RECURSIVE NamesOf(_)
NamesOf(n) ==
    IF n = 0 THEN {<<>>}
    ELSE NamesOf(n - 1) \cup {a \o b : a \in NamesOf(n - 1), b \in Segments}

EnvNames == NamesOf(MaxSegments) \ {<<>>}

InitInfer ==
    /\ InitIdle
    /\ manifest = None
    /\ parsePc = "idle"
    /\ loaded = None
    /\ parsed = NotCalled
    /\ arg \in EnvNames
    /\ ret = NotCalled

InferType ==
    /\ ~ret.done
    /\ ret' = [done |-> TRUE, type |-> infer_type(arg)]
    /\ UNCHANGED <<worldVars, scanVars, manifest, parsePc, loaded, parsed, arg>>

NextInfer == InferType

SpecInfer == InitInfer /\ [][NextInfer]_vars

(***************************************************************************)
(* ComposeSchema.extract_schema (parsers/compose_schema.py:91-171).        *)
(* An optional value is <<>> (None) or <<v>>; the description of a         *)
(* parameter is left out.                                                  *)
(***************************************************************************)
\* ComposeParameter.__init__ (compose_schema.py:11-17)
ComposeParameter(name, default_value, param_type) ==
    [name |-> name, default |-> default_value, type |-> param_type,
     required |-> (default_value = <<>>)]

TZ == <<"T", "Z">>
PUID == <<"P", "U", "I", "D">>
PGID == <<"P", "G", "I", "D">>

\* common_vars (compose_schema.py:159-163)
common_vars ==
    <<ComposeParameter(TZ, <<<<"U", "T", "C">>>>, "string"),
      ComposeParameter(PUID, <<<<"1", "0", "0", "0">>>>, "int"),
      ComposeParameter(PGID, <<<<"1", "0", "0", "0">>>>, "int")>>

\* env_vars[k] = v on a dict kept as a sequence of <<key, value>> in insertion
\* order: a key already present keeps its place and takes the new value
DictSet(d, k, v) ==
    IF \E i \in 1..Len(d) : d[i][1] = k
    THEN [i \in 1..Len(d) |-> IF d[i][1] = k THEN <<k, v>> ELSE d[i]]
    ELSE Append(d, <<k, v>>)

\* the list form read into env_vars (compose_schema.py:121-125)
RECURSIVE EnvFromList(_, _)
EnvFromList(items, d) ==
    IF items = <<>> THEN d
    ELSE LET item == Head(items)
             i == Find(item.text, "=")
         IN IF item.isstr /\ i > 0
            THEN EnvFromList(Tail(items),
                     DictSet(d, SubSeq(item.text, 1, i - 1),
                                SubSeq(item.text, i + 1, Len(item.text))))
            ELSE EnvFromList(Tail(items), d)

\* env_vars of one service (compose_schema.py:115-125)
EnvVars(env) ==
    CASE env.kind = "map"  -> env.items
      [] env.kind = "list" -> EnvFromList(env.items, <<>>)
      [] OTHER             -> <<>>

\* one turn of the loop over env_vars (compose_schema.py:128-156);
\* st is [parameters, seen_env_vars]
ExtractEntry(st, key, value) ==
    LET add(param) == [parameters |-> Append(st.parameters, param),
                       seen_env_vars |-> st.seen_env_vars \cup {key}]
    IN IF key \in st.seen_env_vars THEN st
       ELSE IF StartsWith(value, "$")
       THEN IF ~StartsWith(Strip(value, {"$", "{", "}"}), "_")
            THEN add(ComposeParameter(key, <<>>, infer_type(key)))
            ELSE st
       ELSE add(ComposeParameter(key, <<value>>, infer_type(key)))

RECURSIVE ExtractEnv(_, _)
ExtractEnv(st, env_vars) ==
    IF env_vars = <<>> THEN st
    ELSE ExtractEnv(ExtractEntry(st, Head(env_vars)[1], Head(env_vars)[2]),
                    Tail(env_vars))

\* the loop over the services (compose_schema.py:111-156)
RECURSIVE ExtractServices(_, _)
ExtractServices(st, services) ==
    IF services = <<>> THEN st
    ELSE IF ~Head(services).isdict THEN ExtractServices(st, Tail(services))
    ELSE ExtractServices(ExtractEnv(st, EnvVars(Head(services).environment)),
                         Tail(services))

\* the common parameters that are not there yet (compose_schema.py:166-169)
RECURSIVE AddCommon(_, _, _)
AddCommon(parameters, existing_names, i) ==
    IF i > Len(common_vars) THEN parameters
    ELSE IF common_vars[i].name \in existing_names
    THEN AddCommon(parameters, existing_names, i + 1)
    ELSE AddCommon(Append(parameters, common_vars[i]), existing_names, i + 1)

\* extract_schema(compose_content)
extract_schema(text) ==
    IF text.kind # "doc" THEN <<>>
    ELSE IF text.services.kind = "absent" THEN <<>>
    ELSE LET st == ExtractServices([parameters |-> <<>>, seen_env_vars |-> {}],
                                   text.services.items)
         IN AddCommon(st.parameters,
                      {st.parameters[i].name : i \in 1..Len(st.parameters)}, 1)

(***************************************************************************)
(* SpecSchema: extract_schema on manifests of one service with at most     *)
(* MaxEnv environment entries, and of at most MaxSchemaServices services   *)
(* with at most one entry each.                                            *)
(***************************************************************************)
MaxEnv == 2
MaxSchemaServices == 2

PORT == <<"P", "O", "R", "T">>
DEBUG == <<"D", "E", "B", "U", "G">>
EnvKeys == {PORT, DEBUG, TZ}

\* ${PORT}, ${_P}, true, 1
EnvValues == {<<"$", "{", "P", "O", "R", "T", "}">>, <<"$", "{", "_", "P", "}">>, <<"t", "r", "u", "e">>, <<"1">>}

\* mapping form: distinct keys, in document order
EnvMaps(n) ==
    UNION {{m \in [1..k -> {<<key, v>> : key \in EnvKeys, v \in EnvValues}] :
               \A i, j \in 1..k : i # j => m[i][1] # m[j][1]} : k \in 0..n}

\* items of the list form: KEY=VALUE, a bare KEY, and an item that is not a
\* string
EnvItems ==
    {[isstr |-> TRUE, text |-> key \o <<"=">> \o v] :
        key \in EnvKeys, v \in EnvValues}
    \cup {[isstr |-> TRUE, text |-> PORT], [isstr |-> FALSE, text |-> <<>>]}

EnvLists(n) == UNION {[1..k -> EnvItems] : k \in 0..n}

Environments(n) ==
    {[kind |-> "map", items |-> m] : m \in EnvMaps(n)}
    \cup {[kind |-> "list", items |-> l] : l \in EnvLists(n)}

\* a service definition: a mapping with an environment, or not a mapping
SchemaServices(n) ==
    {[isdict |-> TRUE, environment |-> e] : e \in Environments(n)}
    \cup {[isdict |-> FALSE, environment |-> [kind |-> "other", items |-> <<>>]]}

SchemaTexts ==
    {[kind |-> "invalid"], [kind |-> "empty"],
     [kind |-> "doc", services |-> [kind |-> "absent", items |-> <<>>]]}
    \cup {[kind |-> "doc", services |-> [kind |-> "map", items |-> <<sv>>]] :
             sv \in SchemaServices(MaxEnv)}
    \cup {[kind |-> "doc", services |-> [kind |-> "map", items |-> svs]] :
             svs \in UNION {[1..k -> SchemaServices(1)] :
                               k \in 0..MaxSchemaServices}}

InitSchema ==
    /\ InitIdle
    /\ manifest = None
    /\ parsePc = "idle"
    /\ loaded = None
    /\ parsed = NotCalled
    /\ arg \in SchemaTexts
    /\ ret = NotCalled

ExtractSchema ==
    /\ ~ret.done
    /\ ret' = [done |-> TRUE, parameters |-> extract_schema(arg)]
    /\ UNCHANGED <<worldVars, scanVars, manifest, parsePc, loaded, parsed, arg>>

NextSchema == ExtractSchema

SpecSchema == InitSchema /\ [][NextSchema]_vars

(***************************************************************************)
(* ComposeSchema.extract_volumes (parsers/compose_schema.py:218-280).      *)
(***************************************************************************)
\* VolumeParameter.__init__ (compose_schema.py:56-60)
VolumeParameter(source, target, service, mode) ==
    [source |-> source, target |-> target, service |-> service, mode |-> mode]

rw == <<"r", "w">>
ro == <<"r", "o">>

\* one turn of the loop over the volumes that takes every shorthand string
\* with a ':' for a bind mount
ExtractVolumeAnySource(vol, service_name) ==
    CASE vol.kind = "str" /\ Find(vol.text, ":") > 0 ->
            LET parts == Split(vol.text, ":")
            IN <<VolumeParameter(parts[1], parts[2], service_name,
                                 IF Len(parts) > 2 THEN parts[3] ELSE rw)>>
      [] vol.kind = "dict" /\ vol.type = "bind" ->
            <<VolumeParameter(vol.source, vol.target, service_name,
                              IF vol.read_only THEN ro ELSE rw)>>
      [] OTHER -> <<>>

\* one turn of the loop over the volumes of a service
\* (compose_schema.py:246-278): the parameters appended for vol
ExtractVolume(vol, service_name) ==
    IF vol.kind = "str"
    THEN IF Find(vol.text, ":") > 0
         THEN LET parts == Split(vol.text, ":")
                  source == parts[1]
                  target == IF Len(parts) > 1 THEN parts[2] ELSE <<>>
                  mode == IF Len(parts) > 2 THEN parts[3] ELSE rw
              IN IF ~StartsWith(source, "/") /\ ~StartsWith(source, ".")
                      /\ ~StartsWith(source, "~")
                 THEN <<>>
                 ELSE <<VolumeParameter(source, target, service_name, mode)>>
         ELSE <<>>
    ELSE IF vol.kind = "dict"
    THEN IF vol.type = "bind"
         THEN <<VolumeParameter(vol.source, vol.target, service_name,
                                IF vol.read_only THEN ro ELSE rw)>>
         ELSE <<>>
    ELSE <<>>

RECURSIVE ExtractServiceVolumes(_, _)
ExtractServiceVolumes(service_volumes, service_name) ==
    IF service_volumes = <<>> THEN <<>>
    ELSE ExtractVolume(Head(service_volumes), service_name)
         \o ExtractServiceVolumes(Tail(service_volumes), service_name)

\* the loop over the services (compose_schema.py:240-278)
RECURSIVE ExtractAllVolumes(_)
ExtractAllVolumes(services) ==
    IF services = <<>> THEN <<>>
    ELSE IF ~Head(services).isdict THEN ExtractAllVolumes(Tail(services))
    ELSE ExtractServiceVolumes(Head(services).volumes, Head(services).name)
         \o ExtractAllVolumes(Tail(services))

\* extract_volumes(compose_content)
extract_volumes(text) ==
    IF text.kind # "doc" THEN <<>>
    ELSE IF text.services.kind = "absent" THEN <<>>
    ELSE ExtractAllVolumes(text.services.items)

(***************************************************************************)
(* SpecVolumes: extract_volumes on manifests of one service with one       *)
(* volume entry of at most MaxFields ':'-separated fields, and of at most  *)
(* MaxVolServices services with at most MaxVolumes entries each.           *)
(***************************************************************************)
MaxFields == 3
MaxVolumes == 2
MaxVolServices == 2

\* the fields of a shorthand string: empty, /d, ., ~, v, ro, rw, z
Fields == {<<>>, <<"/", "d">>, <<".">>, <<"~">>, <<"v">>, ro, rw, <<"z">>}

RECURSIVE Shorthands(_)
Shorthands(n) ==
    IF n = 1 THEN Fields
    ELSE Shorthands(n - 1)
         \cup {a \o <<":">> \o b : a \in Shorthands(n - 1), b \in Fields}

\* structured records: type bind, volume, or no type key
VolumeRecords ==
    {[kind |-> "dict", type |-> t, source |-> <<"/", "d">>, target |-> <<"/", "t">>,
      read_only |-> b] : t \in {"bind", "volume", "none"}, b \in BOOLEAN}

\* an entry that is neither a string nor a mapping
OtherEntry == [kind |-> "other"]

VolumeEntries ==
    {[kind |-> "str", text |-> x] : x \in Shorthands(MaxFields)}
    \cup VolumeRecords \cup {OtherEntry}

\* /d:/t:ro, v:/t, /t, a bind record, a volume record
FewEntries ==
    {[kind |-> "str", text |-> <<"/", "d", ":", "/", "t", ":", "r", "o">>],
     [kind |-> "str", text |-> <<"v", ":", "/", "t">>],
     [kind |-> "str", text |-> <<"/", "t">>],
     [kind |-> "dict", type |-> "bind", source |-> <<"/", "d">>, target |-> <<"/", "t">>,
      read_only |-> TRUE],
     [kind |-> "dict", type |-> "volume", source |-> <<"/", "d">>, target |-> <<"/", "t">>,
      read_only |-> FALSE]}

VolumeLists == UNION {[1..k -> FewEntries] : k \in 0..MaxVolumes}

\* the services of a manifest: the i-th is named after its place
VolumeServices ==
    UNION {{[i \in 1..k |->
                [name |-> IF i = 1 THEN "web" ELSE IF i = 2 THEN "db" ELSE "s" ,
                 isdict |-> d[i], volumes |-> IF d[i] THEN v[i] ELSE <<>>]] :
             d \in [1..k -> BOOLEAN], v \in [1..k -> VolumeLists]} :
           k \in 0..MaxVolServices}

VolumeTexts ==
    {[kind |-> "invalid"], [kind |-> "empty"],
     [kind |-> "doc", services |-> [kind |-> "absent", items |-> <<>>]]}
    \cup {[kind |-> "doc", services |-> [kind |-> "map", items |->
               <<[name |-> "web", isdict |-> TRUE, volumes |-> <<e>>]>>]] :
             e \in VolumeEntries}
    \cup {[kind |-> "doc", services |-> [kind |-> "map", items |-> svs]] :
             svs \in VolumeServices}

InitVolumes ==
    /\ InitIdle
    /\ manifest = None
    /\ parsePc = "idle"
    /\ loaded = None
    /\ parsed = NotCalled
    /\ arg \in VolumeTexts
    /\ ret = NotCalled

ExtractVolumes ==
    /\ ~ret.done
    /\ ret' = [done |-> TRUE, volumes |-> extract_volumes(arg)]
    /\ UNCHANGED <<worldVars, scanVars, manifest, parsePc, loaded, parsed, arg>>

NextVolumes == ExtractVolumes

SpecVolumes == InitVolumes /\ [][NextVolumes]_vars

(***************************************************************************)
(* ComposeSchema.apply_overrides (parsers/compose_schema.py:173-216).      *)
(* A manifest text is its document plus its formatting (fmt); a document   *)
(* keeps its mappings as sequences in document order.                      *)
(***************************************************************************)
\* code point order of the characters of keys and names
CodePoints == UpperCase \o <<"_">> \o LowerCase

Ord(c) ==
    IF \E i \in 1..Len(CodePoints) : CodePoints[i] = c
    THEN CHOOSE i \in 1..Len(CodePoints) : CodePoints[i] = c
    ELSE 0

\* a < b for two str, as sorted() compares them
RECURSIVE Less(_, _)
Less(a, b) ==
    IF b = <<>> THEN FALSE
    ELSE IF a = <<>> THEN TRUE
    ELSE IF Ord(a[1]) # Ord(b[1]) THEN Ord(a[1]) < Ord(b[1])
    ELSE Less(Tail(a), Tail(b))

\* the entries of a mapping sorted by key; keys[i] is the key of entries[i]
\* and the keys are distinct
RECURSIVE SortedBy(_, _)
SortedBy(entries, keys) ==
    IF entries = <<>> THEN <<>>
    ELSE LET m == CHOOSE i \in 1..Len(keys) :
                     \A j \in 1..Len(keys) : j # i => Less(keys[i], keys[j])
             rest(q) == [j \in 1..(Len(q) - 1) |->
                            IF j < m THEN q[j] ELSE q[j + 1]]
         IN <<entries[m]>> \o SortedBy(rest(entries), rest(keys))

\* yaml.safe_load(compose_content): the document without its formatting
LoadCompose(text) ==
    CASE text.kind = "invalid" -> Raises
      [] text.kind = "empty"   -> None
      [] OTHER -> [kind |-> "compose", services |-> text.services]

\* the environment of a service as yaml.dump writes it: the keys of a mapping
\* sorted, a list as it is
DumpEnvironment(env) ==
    IF env.kind = "map"
    THEN [kind |-> "map",
          items |-> SortedBy(env.items,
                             [i \in 1..Len(env.items) |-> env.items[i][1]])]
    ELSE env

\* yaml.dump(compose, default_flow_style=False): block style, the keys of
\* every mapping sorted (sort_keys defaults to True)
Dump(compose) ==
    [kind |-> "doc", fmt |-> "dumped",
     services |->
        [kind |-> compose.services.kind,
         items |-> SortedBy(
            [i \in 1..Len(compose.services.items) |->
                [compose.services.items[i] EXCEPT
                    !.environment = DumpEnvironment(@)]],
            [i \in 1..Len(compose.services.items) |->
                compose.services.items[i].name])]]

\* the environment of one service with every entry set whose key begins
\* with an override key
OverrideEnvironmentPrefix(env, overrides) ==
    LET hit(k) == \E o \in DOMAIN overrides :
                     Len(o) <= Len(k) /\ SubSeq(k, 1, Len(o)) = o
        val(k) == overrides[CHOOSE o \in DOMAIN overrides :
                     Len(o) <= Len(k) /\ SubSeq(k, 1, Len(o)) = o]
    IN CASE env.kind = "map" ->
            [env EXCEPT !.items =
                [i \in 1..Len(env.items) |->
                    IF hit(env.items[i][1])
                    THEN <<env.items[i][1], val(env.items[i][1])>>
                    ELSE env.items[i]]]
         [] OTHER -> env

\* the environment of one service after the overrides
\* (compose_schema.py:197-214)
OverrideEnvironment(env, overrides) ==
    CASE env.kind = "map" ->
            [env EXCEPT !.items =
                [i \in 1..Len(env.items) |->
                    IF env.items[i][1] \in DOMAIN overrides
                    THEN <<env.items[i][1], overrides[env.items[i][1]]>>
                    ELSE env.items[i]]]
      [] env.kind = "list" ->
            [env EXCEPT !.items =
                [i \in 1..Len(env.items) |->
                    LET item == env.items[i]
                        e == Find(item.text, "=")
                    IN IF item.isstr /\ e > 0
                          /\ SubSeq(item.text, 1, e - 1) \in DOMAIN overrides
                       THEN [isstr |-> TRUE,
                             text |-> SubSeq(item.text, 1, e - 1) \o <<"=">>
                                      \o overrides[SubSeq(item.text, 1, e - 1)]]
                       ELSE item]]
      [] OTHER -> env

\* the loop over the services (compose_schema.py:193-214)
OverrideServices(services, overrides) ==
    [i \in 1..Len(services) |->
        IF services[i].isdict
        THEN [services[i] EXCEPT
                 !.environment = OverrideEnvironment(@, overrides)]
        ELSE services[i]]

\* apply_overrides(compose_content, overrides)
apply_overrides(text, overrides) ==
    LET compose == LoadCompose(text)
    IN IF compose = Raises \/ compose = None THEN text
       ELSE IF compose.services.kind = "absent" THEN text
       ELSE Dump([compose EXCEPT
                     !.services.items = OverrideServices(@, overrides)])

(***************************************************************************)
(* SpecOverrides: apply_overrides on manifests of at most                  *)
(* MaxOverrideServices services with at most MaxOverrideEnv environment    *)
(* entries each, for every set of overrides over OverrideKeys.             *)
(***************************************************************************)
MaxOverrideEnv == 2
MaxOverrideServices == 2

web == <<"w", "e", "b">>
dbs == <<"d", "b">>
OverrideServiceNames == {web, dbs}

\* P is a prefix of PORT
OverrideKeys == {PORT, <<"P">>}
OverrideValue == <<"9">>

AllOverrides == UNION {[ks -> {OverrideValue}] : ks \in SUBSET OverrideKeys}

OvKeys == {PORT, DEBUG}
OvValues == {<<"1">>, <<"2">>}

OvMaps ==
    UNION {{m \in [1..k -> {<<key, v>> : key \in OvKeys, v \in OvValues}] :
               \A i, j \in 1..k : i # j => m[i][1] # m[j][1]} :
           k \in 0..MaxOverrideEnv}

\* PORT=1, DEBUG=1, a bare PORT, an item that is not a string
OvItems ==
    {[isstr |-> TRUE, text |-> PORT \o <<"=">> \o <<"1">>],
     [isstr |-> TRUE, text |-> DEBUG \o <<"=">> \o <<"1">>],
     [isstr |-> TRUE, text |-> PORT],
     [isstr |-> FALSE, text |-> <<>>]}

OvLists == UNION {[1..k -> OvItems] : k \in 0..MaxOverrideEnv}

OvEnvironments ==
    {[kind |-> "map", items |-> m] : m \in OvMaps}
    \cup {[kind |-> "list", items |-> l] : l \in OvLists}
    \cup {[kind |-> "other", items |-> <<>>]}

\* a service: its name, its environment and the rest of its definition
\* (image); or a definition that is not a mapping
OvServices ==
    {[name |-> n, isdict |-> TRUE, environment |-> e, image |-> "img"] :
        n \in OverrideServiceNames, e \in OvEnvironments}
    \cup {[name |-> n, isdict |-> FALSE,
           environment |-> [kind |-> "other", items |-> <<>>],
           image |-> "none"] : n \in OverrideServiceNames}

OvServiceSeqs ==
    UNION {{svs \in [1..k -> OvServices] :
               \A i, j \in 1..k : i # j => svs[i].name # svs[j].name} :
           k \in 0..MaxOverrideServices}

OverrideTexts ==
    {[kind |-> "invalid", fmt |-> "original"],
     [kind |-> "empty", fmt |-> "original"],
     [kind |-> "doc", fmt |-> "original",
      services |-> [kind |-> "absent", items |-> <<>>]]}
    \cup {[kind |-> "doc", fmt |-> "original",
           services |-> [kind |-> "map", items |-> svs]] :
             svs \in OvServiceSeqs}

InitOverrides ==
    /\ InitIdle
    /\ manifest = None
    /\ parsePc = "idle"
    /\ loaded = None
    /\ parsed = NotCalled
    /\ arg \in [text : OverrideTexts, overrides : AllOverrides]
    /\ ret = NotCalled

ApplyOverrides ==
    /\ ~ret.done
    /\ ret' = [done |-> TRUE, text |-> apply_overrides(arg.text, arg.overrides)]
    /\ UNCHANGED <<worldVars, scanVars, manifest, parsePc, loaded, parsed, arg>>

NextOverrides == ApplyOverrides

SpecOverrides == InitOverrides /\ [][NextOverrides]_vars

(***************************************************************************)
(* ComposeSchema.apply_volume_overrides                                    *)
(* (parsers/compose_schema.py:282-331).                                    *)
(***************************************************************************)
\* str.join: the parts with sep between them
RECURSIVE Join(_, _)
Join(parts, sep) ==
    IF Len(parts) = 0 THEN <<>>
    ELSE IF Len(parts) = 1 THEN parts[1]
    ELSE parts[1] \o <<sep>> \o Join(Tail(parts), sep)

\* one turn of the loop over the volumes of a service
\* (compose_schema.py:309-326): the entry appended to new_volumes
OverrideVolume(vol, overrides) ==
    IF vol.kind = "str" /\ Find(vol.text, ":") > 0
    THEN LET parts == Split(vol.text, ":")
             source == parts[1]
         IN IF source \in DOMAIN overrides
            THEN [vol EXCEPT !.text =
                     Join([parts EXCEPT ![1] = overrides[source]], ":")]
            ELSE vol
    ELSE IF vol.kind = "dict" /\ vol.type = "bind"
    THEN IF vol.source \in DOMAIN overrides
         THEN [vol EXCEPT !.source = overrides[vol.source]]
         ELSE vol
    ELSE vol

\* the loop over the services (compose_schema.py:302-329)
OverrideServiceVolumes(services, overrides) ==
    [i \in 1..Len(services) |->
        IF services[i].isdict
        THEN [services[i] EXCEPT
                 !.volumes = [j \in 1..Len(@) |-> OverrideVolume(@[j], overrides)]]
        ELSE services[i]]

\* apply_volume_overrides(compose_content, overrides)
apply_volume_overrides(text, overrides) ==
    LET compose == LoadCompose(text)
    IN IF compose = Raises \/ compose = None THEN text
       ELSE IF compose.services.kind = "absent" THEN text
       ELSE Dump([compose EXCEPT
                     !.services.items = OverrideServiceVolumes(@, overrides)])

(***************************************************************************)
(* SpecVolumeOverrides: apply_volume_overrides on the manifests of         *)
(* SpecVolumes, for every set of overrides over VolumeOverrideKeys.        *)
(***************************************************************************)
\* /d is the source of the model's bind mounts, v the name of its named
\* volume, / a prefix of /d
VolumeOverrideKeys == {<<"/", "d">>, <<"v">>, <<"/">>}
VolumeOverrideValue == <<"/", "n">>

AllVolumeOverrides ==
    UNION {[ks -> {VolumeOverrideValue}] : ks \in SUBSET VolumeOverrideKeys}

\* a service of a manifest with its volumes and the rest of its definition
VolumeService(name, isdict, volumes) ==
    [name |-> name, isdict |-> isdict, volumes |-> volumes,
     environment |-> [kind |-> "other", items |-> <<>>],
     image |-> IF isdict THEN "img" ELSE "none"]

\* the services of a manifest in document order: web before db or db before
\* web
VolumeOverrideServices ==
    UNION {{[i \in 1..k |->
                VolumeService(IF (i = 1) = first THEN web ELSE dbs, d[i],
                              IF d[i] THEN v[i] ELSE <<>>)] :
             d \in [1..k -> BOOLEAN], v \in [1..k -> VolumeLists],
             first \in BOOLEAN} :
           k \in 0..2}

VolumeOverrideTexts ==
    {[kind |-> "invalid", fmt |-> "original"],
     [kind |-> "empty", fmt |-> "original"],
     [kind |-> "doc", fmt |-> "original",
      services |-> [kind |-> "absent", items |-> <<>>]]}
    \cup {[kind |-> "doc", fmt |-> "original",
           services |-> [kind |-> "map", items |->
               <<VolumeService(web, TRUE, <<e>>)>>]] : e \in VolumeEntries}
    \cup {[kind |-> "doc", fmt |-> "original",
           services |-> [kind |-> "map", items |-> svs]] :
             svs \in VolumeOverrideServices}

InitVolumeOverrides ==
    /\ InitIdle
    /\ manifest = None
    /\ parsePc = "idle"
    /\ loaded = None
    /\ parsed = NotCalled
    /\ arg \in [text : VolumeOverrideTexts, overrides : AllVolumeOverrides]
    /\ ret = NotCalled

ApplyVolumeOverrides ==
    /\ ~ret.done
    /\ ret' = [done |-> TRUE,
               text |-> apply_volume_overrides(arg.text, arg.overrides)]
    /\ UNCHANGED <<worldVars, scanVars, manifest, parsePc, loaded, parsed, arg>>

NextVolumeOverrides == ApplyVolumeOverrides

SpecVolumeOverrides == InitVolumeOverrides /\ [][NextVolumeOverrides]_vars

(***************************************************************************)
(* ComposeParameter.validate (parsers/compose_schema.py:28-50).            *)
(***************************************************************************)
Digits == <<"0", "1", "2", "3", "4", "5", "6", "7", "8", "9">>

IsDigit(c) == \E d \in 1..Len(Digits) : Digits[d] = c

DigitValue(c) == (CHOOSE d \in 1..Len(Digits) : Digits[d] = c) - 1

\* int(value) of a string succeeds: an optional sign and decimal digits
IsInt(value) ==
    LET digits == IF StartsWith(value, "-") \/ StartsWith(value, "+")
                  THEN Tail(value) ELSE value
    IN Len(digits) > 0 /\ \A i \in 1..Len(digits) : IsDigit(digits[i])

\* int(value) of a string of decimal digits
RECURSIVE Magnitude(_)
Magnitude(digits) ==
    IF digits = <<>> THEN 0
    ELSE 10 * Magnitude(SubSeq(digits, 1, Len(digits) - 1))
         + DigitValue(digits[Len(digits)])

\* int(value)
ToInt(value) ==
    IF StartsWith(value, "-") THEN 0 - Magnitude(Tail(value))
    ELSE IF StartsWith(value, "+") THEN Magnitude(Tail(value))
    ELSE Magnitude(value)

Lowered(value) == [i \in 1..Len(value) |->
                      IF \E j \in 1..Len(UpperCase) : UpperCase[j] = value[i]
                      THEN LowerCase[CHOOSE j \in 1..Len(UpperCase) :
                                        UpperCase[j] = value[i]]
                      ELSE value[i]]

BoolTokens ==
    {<<"t", "r", "u", "e">>, <<"1">>, <<"y", "e", "s">>,
     <<"f", "a", "l", "s", "e">>, <<"0">>, <<"n", "o">>}

MinPort == 1
MaxPort == 65535

\* validate(value) of a parameter of type param_type: TRUE when accepted
validate(param_type, value) ==
    CASE param_type = "int"  -> IsInt(value)
      [] param_type = "port" -> IsInt(value) /\ MinPort <= ToInt(value)
                                             /\ ToInt(value) <= MaxPort
      [] param_type = "bool" -> Lowered(value) \in BoolTokens
      [] OTHER -> TRUE

(***************************************************************************)
(* PortainerClient.deploy_stack and _apply_env_overrides                   *)
(* (portainer/__init__.py:42-130, 148-164) under deploy_app                *)
(* (main.py:682-721).  The manifest is raw text here: a sequence of        *)
(* characters with its line ends.                                          *)
(***************************************************************************)
NL == "\n"

IsSpace(c) == c \in {" ", NL}

\* the characters of str at i are those of word
HasAt(str, word, i) ==
    /\ i + Len(word) - 1 <= Len(str)
    /\ \A j \in 1..Len(word) : str[i + j - 1] = word[j]

\* the last index of the run of characters other than a line end that
\* begins at k: where [^\n]+ stops
LineEnd(str, k) ==
    CHOOSE e \in k..Len(str) :
       /\ \A j \in k..e : str[j] # NL
       /\ e = Len(str) \/ str[e + 1] = NL

\* where a match of \s*[^\n]+ that begins at j ends, 0 when there is none:
\* \s* takes all the white space, line ends included, and gives back as much
\* as [^\n]+ needs
MatchEnd(str, j) ==
    IF \E k \in j..Len(str) : ~IsSpace(str[k])
    THEN LineEnd(str, CHOOSE k \in j..Len(str) :
                         /\ ~IsSpace(str[k])
                         /\ \A h \in j..(k - 1) : IsSpace(str[h]))
    ELSE IF \E p \in j..Len(str) : str[p] # NL
    THEN CHOOSE p \in j..Len(str) :
            str[p] # NL /\ \A h \in (p + 1)..Len(str) : str[h] = NL
    ELSE 0

\* re.sub(f"({key}:)\\s*[^\\n]+", f"{key}: {value}", result) from index i on:
\* every match, leftmost first, replaced
RECURSIVE SubFrom(_, _, _, _)
SubFrom(str, key, value, i) ==
    IF i > Len(str) THEN <<>>
    ELSE IF HasAt(str, key \o <<":">>, i)
            /\ MatchEnd(str, i + Len(key) + 1) # 0
    THEN key \o <<":", " ">> \o value
         \o SubFrom(str, key, value, MatchEnd(str, i + Len(key) + 1) + 1)
    ELSE <<str[i]>> \o SubFrom(str, key, value, i + 1)

\* the loop of _apply_env_overrides over overrides.items(), from pair i on
RECURSIVE ApplyEnvFrom(_, _, _)
ApplyEnvFrom(content, overrides, i) ==
    IF i > Len(overrides) THEN content
    ELSE ApplyEnvFrom(SubFrom(content, overrides[i][1], overrides[i][2], 1),
                      overrides, i + 1)

\* _apply_env_overrides(compose_content, overrides); overrides is the dict as
\* the sequence of its items
apply_env_overrides_raw(compose_content, overrides) ==
    ApplyEnvFrom(compose_content, overrides, 1)

\* deploy_stack up to the payload (portainer/__init__.py:63-84), for a
\* request without volume overrides
DeployPayload(compose_content, env_overrides) ==
    [StackFileContent |->
        IF env_overrides # <<>>
        THEN apply_env_overrides_raw(compose_content, env_overrides)
        ELSE compose_content,
     Env |-> env_overrides]

\* deploy_stack: the payload posted and the DeployResponse, the answer of
\* Portainer being 200 or not
deploy_stack(compose_content, env_overrides, answered) ==
    [done |-> TRUE,
     status |-> IF answered THEN "success" ELSE "failed",
     submitted |-> <<DeployPayload(compose_content, env_overrides)>>]

(***************************************************************************)
(* SpecDeploy: deploy_app on an app whose manifest has at most             *)
(* MaxDeployServices services with at most MaxDeployEnv environment        *)
(* entries each, written in block style, with the env overrides of the     *)
(* request over DeployOverrideKeys.                                        *)
(***************************************************************************)
MaxDeployEnv == 2
MaxDeployServices == 2

X_PORT == <<"X", "_">> \o PORT

DeployEnvKeys == {PORT, X_PORT, DEBUG}
DeployEnvValue == <<"1">>

DeployOverrideKeys == {PORT, DEBUG}
\* 9 is a port and no bool, 0 is a bool and no port
DeployOverrideValues == {<<"9">>, <<"0">>}

\* request.env_overrides: the items of the dict in their order
DeployOverrides ==
    UNION {{o \in [1..k -> DeployOverrideKeys \X DeployOverrideValues] :
               \A i, j \in 1..k : i # j => o[i][1] # o[j][1]} :
           k \in 0..Cardinality(DeployOverrideKeys)}

DeployMaps ==
    UNION {{m \in [1..k -> DeployEnvKeys \X {DeployEnvValue}] :
               \A i, j \in 1..k : i # j => m[i][1] # m[j][1]} :
           k \in 1..MaxDeployEnv}

\* PORT=1, DEBUG=1, a bare PORT
DeployItems ==
    {[isstr |-> TRUE, text |-> PORT \o <<"=">> \o DeployEnvValue],
     [isstr |-> TRUE, text |-> DEBUG \o <<"=">> \o DeployEnvValue],
     [isstr |-> TRUE, text |-> PORT]}

DeployLists == UNION {[1..k -> DeployItems] : k \in 1..MaxDeployEnv}

DeployEnvironments ==
    {[kind |-> "map", items |-> m] : m \in DeployMaps}
    \cup {[kind |-> "list", items |-> l] : l \in DeployLists}
    \cup {[kind |-> "other", items |-> <<>>]}

\* the services of the manifest in document order: web, then db
DeployServices ==
    UNION {{[i \in 1..k |->
                [name |-> IF i = 1 THEN web ELSE dbs, isdict |-> TRUE,
                 environment |-> e[i], image |-> "img"]] :
             e \in [1..k -> DeployEnvironments]} :
           k \in 1..MaxDeployServices}

Indent(n) == [i \in 1..n |-> " "]

RECURSIVE Concat(_)
Concat(seqs) == IF seqs = <<>> THEN <<>> ELSE Head(seqs) \o Concat(Tail(seqs))

\* the lines of an environment section in block style
EnvLines(env) ==
    IF env.kind = "other" THEN <<>>
    ELSE Indent(4) \o <<"e", "n", "v", "i", "r", "o", "n", "m", "e", "n", "t",
                        ":", NL>>
         \o Concat([i \in 1..Len(env.items) |->
               IF env.kind = "map"
               THEN Indent(6) \o env.items[i][1] \o <<":", " ">>
                    \o env.items[i][2] \o <<NL>>
               ELSE Indent(6) \o <<"-", " ">> \o env.items[i].text \o <<NL>>])

\* app.compose_content: the text of a manifest with these services
ComposeText(services) ==
    <<"s", "e", "r", "v", "i", "c", "e", "s", ":", NL>>
    \o Concat([i \in 1..Len(services) |->
          Indent(2) \o services[i].name \o <<":", NL>>
          \o Indent(4) \o <<"i", "m", "a", "g", "e", ":", " ", "i", "m", "g", NL>>
          \o EnvLines(services[i].environment)])

\* the apps of the catalog a request can name, by the services of their
\* manifests; <<>> for an app_id that is not in the catalog
DeployApps == {<<>>} \cup {<<svs>> : svs \in DeployServices}

InitDeploy ==
    /\ InitIdle
    /\ manifest = None
    /\ parsePc = "idle"
    /\ loaded = None
    /\ parsed = NotCalled
    /\ arg \in [app : DeployApps, env_overrides : DeployOverrides]
    /\ ret = NotCalled

\* deploy_app: 404 for an unknown app, the response of deploy_stack otherwise
DeployApp ==
    /\ ~ret.done
    /\ \E answered \in BOOLEAN :
          ret' = IF arg.app = <<>>
                 THEN [done |-> TRUE, status |-> "not_found", submitted |-> <<>>]
                 ELSE deploy_stack(ComposeText(arg.app[1]), arg.env_overrides,
                                   answered)
    /\ UNCHANGED <<worldVars, scanVars, manifest, parsePc, loaded, parsed, arg>>

NextDeploy == DeployApp

SpecDeploy == InitDeploy /\ [][NextDeploy]_vars

(***************************************************************************)
(* DockerComposeParser._flatten_env (parsers/__init__.py:132-146).         *)
(***************************************************************************)
\* an item cut at its last '='
SplitAtLast(text) ==
    LET last == CHOOSE i \in 1..Len(text) :
                   text[i] = "=" /\ \A j \in (i + 1)..Len(text) : text[j] # "="
    IN <<SubSeq(text, 1, last - 1), SubSeq(text, last + 1, Len(text))>>

\* item.split('=', 1) of an item that holds a '=': k and v
SplitOnce(text) ==
    <<SubSeq(text, 1, Find(text, "=") - 1),
      SubSeq(text, Find(text, "=") + 1, Len(text))>>

\* str(v) if v is not None else ""
StrOrEmpty(v) == IF v.isnone THEN <<>> ELSE v.text

\* the loop over the items of a mapping (parsers/__init__.py:138-139)
RECURSIVE FlattenMap(_, _)
FlattenMap(items, acc) ==
    IF items = <<>> THEN acc
    ELSE FlattenMap(Tail(items),
                    DictSet(acc, Head(items)[1], StrOrEmpty(Head(items)[2])))

\* the loop over the items of a list (parsers/__init__.py:141-144)
RECURSIVE FlattenList(_, _)
FlattenList(items, acc) ==
    IF items = <<>> THEN acc
    ELSE LET item == Head(items)
         IN IF item.isstr /\ Find(item.text, "=") > 0
            THEN FlattenList(Tail(items),
                             DictSet(acc, SplitOnce(item.text)[1],
                                          SplitOnce(item.text)[2]))
            ELSE FlattenList(Tail(items), acc)

\* _flatten_env(env): the dict as the sequence of its items
flatten_env(env) ==
    CASE env.kind = "map"  -> FlattenMap(env.items, <<>>)
      [] env.kind = "list" -> FlattenList(env.items, <<>>)
      [] OTHER             -> <<>>

(***************************************************************************)
(* SpecFlatten: _flatten_env on the mapping form and on the list form of   *)
(* at most MaxFlatten pairs; the list may hold an item that is no          *)
(* KEY=VALUE string.                                                       *)
(***************************************************************************)
MaxFlatten == 2

FlattenKeys == {<<"A">>, <<"B">>, <<"C">>}

\* 1, a=b, =, the empty string, and None (a key without a value)
FlattenValues ==
    {[isnone |-> FALSE, text |-> t] :
        t \in {<<"1">>, <<"a", "=", "b">>, <<"=">>, <<>>}}
    \cup {[isnone |-> TRUE, text |-> <<>>]}

FlattenPairs ==
    UNION {{p \in [1..k -> FlattenKeys \X FlattenValues] :
               \A i, j \in 1..k : i # j => p[i][1] # p[j][1]} :
           k \in 0..MaxFlatten}

\* what a list can hold besides KEY=VALUE strings: a string without '=', an
\* item that is not a string
FlattenNoise ==
    {<<>>, <<[isstr |-> TRUE, text |-> <<"A">>]>>,
     <<[isstr |-> FALSE, text |-> <<>>]>>}

\* the mapping form of the pairs
MapForm(pairs) == [kind |-> "map", items |-> pairs]

\* the list form of the pairs: KEY=VALUE strings
ListForm(pairs, noise) ==
    [kind |-> "list",
     items |-> noise \o [i \in 1..Len(pairs) |->
                  [isstr |-> TRUE,
                   text |-> pairs[i][1] \o <<"=">> \o StrOrEmpty(pairs[i][2])]]]

InitFlatten ==
    /\ InitIdle
    /\ manifest = None
    /\ parsePc = "idle"
    /\ loaded = None
    /\ parsed = NotCalled
    /\ arg \in [pairs : FlattenPairs, noise : FlattenNoise]
    /\ ret = NotCalled

FlattenEnv ==
    /\ ~ret.done
    /\ ret' = [done |-> TRUE,
               fromMap |-> flatten_env(MapForm(arg.pairs)),
               fromList |-> flatten_env(ListForm(arg.pairs, arg.noise))]
    /\ UNCHANGED <<worldVars, scanVars, manifest, parsePc, loaded, parsed, arg>>

NextFlatten == FlattenEnv

SpecFlatten == InitFlatten /\ [][NextFlatten]_vars

(***************************************************************************)
(* Properties.                                                             *)
(***************************************************************************)
\* thread p's call of clone_or_update returns in this step
Returned(p) == Len(log'[p]) = Len(log[p]) + 1

\* the entry of the call that returned last
LastCall(lg) == lg[Len(lg)]

SyncAllDone(p) == op[p] = "sync_all" /\ pc[p] = "sa_done"

\* C1: while the scheduler's sync_all runs, get_app never reports not-found an
\* app id that is in the catalog before the sync and in the catalog after it.
C1_ReadersSeeCompleteCatalog ==
    SyncAllDone("sched") =>
        \A k \in DOMAIN before["sched"] \cap DOMAIN apps : k \notin notFound

\* C2: while one thread is inside the scan of a repository's Apps directory, no
\* step of another request deletes that repository's cache directory.
C2_NoDeletionDuringScan ==
    [][\A p \in Threads :
          (pc[p] = "scan_parse" /\ pc'[p] = "scan_parse")
              => ~(cache[Cur(p).name] # Absent /\ cache'[Cur(p).name] = Absent)]_vars

\* C3: a reconcile of an existing cache whose url matches fails and leaves the
\* cache unchanged when source.branch is absent on the remote, and when the
\* branch exists on the remote the branch check does not fail (the call goes
\* on to the pull).
C3_BranchCheckFollowsRemote ==
    [][\A p \in Threads :
          (pc[p] = "cu_begin" /\ Returned(p)) =>
              LET src == Cur(p)
                  e == LastCall(log'[p])
              IN /\ src.branch \notin remote[src.url].branches
                        => ~e.ok /\ cache'[src.name] = cache[src.name]
                 /\ src.branch \in remote[src.url].branches
                        => e.path # "branch_check"]_vars

\* C4: after the re-clone of the url-mismatch path the repository is either a
\* clone of the new url (success) or absent (failure).
C4_RecloneOrAbsent ==
    [][\A p \in Threads :
          (pc[p] = "cu_reclone" /\ Returned(p)) =>
              LET src == Cur(p)
                  e == LastCall(log'[p])
              IN \/ /\ e.ok
                    /\ cache'[src.name] =
                          Checkout(src.url, src.branch, remote[src.url].apps)
                 \/ /\ ~e.ok
                    /\ cache'[src.name] = Absent]_vars

\* C5: a clone that fails when no cache existed leaves no cache directory.
C5_FailedCloneLeavesNothing ==
    [][\A p \in Threads :
          (pc[p] = "cu_clone" /\ cache[Cur(p).name] = Absent /\ Returned(p)
             /\ ~LastCall(log'[p]).ok)
              => cache'[Cur(p).name] = Absent]_vars

\* C6: a reconcile made when the cache exists and its url matches source.url
\* leaves a checkout of the same url and refs, and leaves it unchanged when it
\* fails; the checkout is removed on no path but the url mismatch.
C6_MatchingUrlKeepsCheckout ==
    [][\A p \in Threads :
          LET src == Cur(p)
              c == cache[src.name]
              c2 == cache'[src.name]
          IN (pc[p] = "cu_begin" /\ c # Absent /\ c.url = src.url) =>
                /\ c2 # Absent
                /\ c2.url = c.url
                /\ c2.refs = c.refs
                /\ (Returned(p) /\ ~LastCall(log'[p]).ok) => c2 = c]_vars

\* a reconcile on the matching-url path has failed and the checkout is there
C6_Witness ==
    \E p \in Threads :
        /\ log[p] # <<>>
        /\ ~LastCall(log[p]).ok
        /\ LastCall(log[p]).path \in {"branch_check", "pull"}
        /\ cache[LastCall(log[p]).name] # Absent

\* C7: when a reconcile fails during sync_all on a path that leaves the cache
\* as it was, the apps of that repository that were in the catalog before the
\* sync are in the catalog after it.
C7_LastKnownGoodServed ==
    \A p \in Threads :
        SyncAllDone(p) =>
            \A i \in 1..Len(log[p]) :
                (~log[p][i].ok /\ log[p][i].path \in {"branch_check", "pull"}) =>
                    \A k \in DOMAIN before[p] :
                        before[p][k].repository_source = log[p][i].name
                            => k \in DOMAIN apps

\* C8: right after the rescan of a repository the catalog holds no App of that
\* repository that is not in the scan result.
C8_RescanReplacesWholesale ==
    [][\A p \in Threads :
          (pc[p] = "scan_parse" /\ pc'[p] # "scan_parse") =>
              \A k \in DOMAIN apps' :
                  apps'[k].repository_source = lastScan'[p].repo
                      => /\ k \in DOMAIN lastScan'[p].found
                         /\ apps'[k] = lastScan'[p].found[k]]_vars

RECURSIVE SumFound(_)
SumFound(lg) ==
    IF lg = <<>> THEN 0
    ELSE (IF Head(lg).ok THEN Head(lg).found ELSE 0) + SumFound(Tail(lg))

\* C9: when sync_all returns it has reconciled exactly the enabled sources, in
\* input order; repositories_synced counts the reconciles that succeeded,
\* errors has one entry per reconcile that failed, in order, and apps_loaded
\* is the sum of the scan sizes of the sources reconciled.
C9_SyncAllResult ==
    \A p \in Threads :
        SyncAllDone(p) =>
            LET enabled == SelectSeq(repositories[p], LAMBDA r : r.enabled)
                lg == log[p]
                failed == SelectSeq(lg, LAMBDA e : ~e.ok)
            IN /\ Len(lg) = Len(enabled)
               /\ \A i \in 1..Len(lg) : lg[i].name = enabled[i].name
               /\ result[p].repositories_synced =
                     Cardinality({i \in 1..Len(lg) : lg[i].ok})
               /\ result[p].errors =
                     [i \in 1..Len(failed) |-> <<"Failed to sync", failed[i].name>>]
               /\ result[p].repositories_synced + Len(result[p].errors) = Len(enabled)
               /\ result[p].apps_loaded = SumFound(lg)

\* a sync_all over a list with a disabled source has returned, having loaded apps
C9_Witness ==
    \E p \in Threads :
        /\ SyncAllDone(p)
        /\ \E i \in 1..Len(repositories[p]) : ~repositories[p][i].enabled
        /\ result[p].apps_loaded > 0

Qualifies(e) == e.isdir /\ e.manifest

\* C10: the mapping scan_apps returns has the id of every qualifying directory
\* whose manifest parses, whatever failed to parse beside it and in whatever
\* order; it has nothing else, and it is empty when no entry qualifies.
C10_ScanIsolatesFailures ==
    scanOutput.done =>
        LET out == scanOutput.apps
            n == Len(scanInput)
        IN /\ \A i \in 1..n :
                 (Qualifies(scanInput[i]) /\ scanInput[i].parses)
                     => Lower(scanInput[i].name) \in DOMAIN out
           /\ \A k \in DOMAIN out :
                 \E i \in 1..n :
                     /\ Qualifies(scanInput[i]) /\ scanInput[i].parses
                     /\ Lower(scanInput[i].name) = k
                     /\ out[k].app_id = k
                     /\ out[k].source_dir = scanInput[i].name
           /\ (\A i \in 1..n : ~Qualifies(scanInput[i])) => out = EmptyCatalog

\* a scan has returned for a directory in which a manifest that does not parse
\* is met before one that parses, next to an entry that does not qualify
C10_Witness ==
    /\ scanOutput.done
    /\ \E i, j, k \in 1..Len(scanInput) :
          /\ i < j
          /\ Qualifies(scanInput[i]) /\ ~scanInput[i].parses
          /\ Qualifies(scanInput[j]) /\ scanInput[j].parses
          /\ ~Qualifies(scanInput[k])
          /\ Lower(scanInput[j].name) \in DOMAIN scanOutput.apps

\* parse_app has returned an App
Produced == parsed.done /\ parsed.app # None

\* C11: the main_service of every App parse_app produces is a key of the
\* App's services mapping.
C11_MainServiceIsAService ==
    Produced => parsed.app.main_service \in DOMAIN parsed.app.services

\* C12: parse_app produces no App from a manifest that declares no service at
\* all, whatever x-casaos.main says.
C12_NoServiceNoApp ==
    (parsed.done /\ loaded.compose # Raises /\ loaded.compose # None
        /\ loaded.compose.services.items = <<>>)
        => parsed.app = None

\* C13: the compose_content of every App parse_app produces is the text the
\* App's fields were derived from, also when the file is rewritten meanwhile.
C13_RawTextIsParsedText ==
    Produced => parsed.app.compose_content = loaded.text

\* some pattern of the class matches the name
ClassMatches(ptype, env_name) ==
    \E i \in 1..Len(TYPE_PATTERNS) :
        /\ TYPE_PATTERNS[i].ptype = ptype
        /\ \E k \in 1..Len(TYPE_PATTERNS[i].patterns) :
              Search(TYPE_PATTERNS[i].patterns[k], env_name)

\* C17: infer_type returns the first of port, int, path, bool that has a
\* pattern matching the name, and string when none has.
C17_FirstClassWins ==
    ret.done =>
        ret.type = IF ClassMatches("port", arg) THEN "port"
                   ELSE IF ClassMatches("int", arg) THEN "int"
                   ELSE IF ClassMatches("path", arg) THEN "path"
                   ELSE IF ClassMatches("bool", arg) THEN "bool"
                   ELSE "string"

\* infer_type has returned port for a name that a port pattern and an int
\* pattern both match
C17_Witness ==
    /\ ret.done
    /\ ClassMatches("port", arg)
    /\ ClassMatches("int", arg)
    /\ ret.type = "port"

\* the environment entries of one service as the document has them, in
\* order: the pairs of the mapping form, the KEY=VALUE items of the list form
ItemsOf(env) ==
    CASE env.kind = "map" -> env.items
      [] env.kind = "list" ->
            LET kv == SelectSeq(env.items,
                          LAMBDA it : it.isstr /\ Find(it.text, "=") > 0)
            IN [i \in 1..Len(kv) |->
                   <<SubSeq(kv[i].text, 1, Find(kv[i].text, "=") - 1),
                     SubSeq(kv[i].text, Find(kv[i].text, "=") + 1,
                            Len(kv[i].text))>>]
      [] OTHER -> <<>>

\* the environment entries <<service index, key, value>> of a manifest in
\* document order
RECURSIVE OccurrencesFrom(_, _)
OccurrencesFrom(services, n) ==
    IF n > Len(services) THEN <<>>
    ELSE LET its == IF services[n].isdict
                    THEN ItemsOf(services[n].environment) ELSE <<>>
         IN [i \in 1..Len(its) |-> <<n, its[i][1], its[i][2]>>]
            \o OccurrencesFrom(services, n + 1)

Occurrences(text) ==
    IF text.kind = "doc" THEN OccurrencesFrom(text.services.items, 1) ELSE <<>>

\* the value of the first occurrence of the key
FirstValue(occ, key) ==
    occ[CHOOSE i \in 1..Len(occ) :
            occ[i][2] = key /\ \A j \in 1..(i - 1) : occ[j][2] # key][3]

\* the value is a placeholder reference to a variable without the
\* internal-use prefix
PublicReference(value) ==
    StartsWith(value, "$") /\ ~StartsWith(Strip(value, {"$", "{", "}"}), "_")

\* the default of the parameter a value stands for: none for a public
\* placeholder, the literal value otherwise
DefaultFor(value) == IF PublicReference(value) THEN <<>> ELSE <<value>>

\* C14: the parameter of a key that occurs in several services has the
\* default and the required flag of the key's first occurrence in document
\* order.
C14_FirstOccurrenceWins ==
    ret.done =>
        LET occ == Occurrences(arg)
            ps == ret.parameters
        IN \A a, b \in 1..Len(occ) :
              (occ[a][2] = occ[b][2] /\ occ[a][1] # occ[b][1]) =>
                  \A i \in 1..Len(ps) :
                      ps[i].name = occ[a][2] =>
                          /\ ps[i].default = DefaultFor(FirstValue(occ, occ[a][2]))
                          /\ ps[i].required = PublicReference(FirstValue(occ, occ[a][2]))

\* C15: every environment key yields exactly one parameter, required and
\* without default if the value of its first occurrence is a public
\* placeholder, optional with the literal value as default otherwise.
C15_OneParameterPerKey ==
    ret.done =>
        LET occ == Occurrences(arg)
            ps == ret.parameters
        IN \A a \in 1..Len(occ) :
              /\ Cardinality({i \in 1..Len(ps) : ps[i].name = occ[a][2]}) = 1
              /\ \A i \in 1..Len(ps) :
                    ps[i].name = occ[a][2] =>
                        /\ ps[i].default = DefaultFor(FirstValue(occ, occ[a][2]))
                        /\ ps[i].required = (ps[i].default = <<>>)

\* the manifest of one service with environment {PORT: ${PORT}, DEBUG: true}
ExampleManifest ==
    [kind |-> "doc",
     services |-> [kind |-> "map", items |->
        <<[isdict |-> TRUE, environment |-> [kind |-> "map", items |->
              <<<<PORT, <<"$", "{", "P", "O", "R", "T", "}">>>>, <<DEBUG, <<"t", "r", "u", "e">>>>>>]]>>]]

\* C16: the result of extract_schema has no two parameters of one name and
\* has TZ, PUID and PGID once each: the discovered parameter when the name
\* occurs in an environment, the built-in one after every discovered
\* parameter otherwise; the example manifest gives 5 parameters.
C16_CommonParametersOnce ==
    ret.done =>
        LET occ == Occurrences(arg)
            ps == ret.parameters
            occurs(name) == \E a \in 1..Len(occ) : occ[a][2] = name
        IN /\ \A i, j \in 1..Len(ps) : i # j => ps[i].name # ps[j].name
           /\ \A c \in 1..Len(common_vars) :
                 \E i \in 1..Len(ps) :
                    /\ ps[i].name = common_vars[c].name
                    /\ IF occurs(ps[i].name)
                       THEN ps[i].default = DefaultFor(FirstValue(occ, ps[i].name))
                       ELSE /\ ps[i] = common_vars[c]
                            /\ \A j \in 1..Len(ps) : occurs(ps[j].name) => j < i
           /\ arg = ExampleManifest => Len(ps) = 5

\* the volume entries <<service name, entry>> of a manifest in document order
RECURSIVE VolumeEntriesFrom(_, _)
VolumeEntriesFrom(services, n) ==
    IF n > Len(services) THEN <<>>
    ELSE LET vs == IF services[n].isdict THEN services[n].volumes ELSE <<>>
         IN [i \in 1..Len(vs) |-> [service |-> services[n].name, vol |-> vs[i]]]
            \o VolumeEntriesFrom(services, n + 1)

\* the entry is a bind mount: a shorthand string with a ':' whose source
\* begins with /, . or ~, or a structured record of kind bind
IsBindMount(e) ==
    \/ /\ e.vol.kind = "str"
       /\ Find(e.vol.text, ":") > 0
       /\ e.vol.text[1] \in {"/", ".", "~"}
    \/ /\ e.vol.kind = "dict"
       /\ e.vol.type = "bind"

\* the source of a bind mount: the text before the first ':', or the source
\* key of the record
SourceOf(e) ==
    IF e.vol.kind = "str"
    THEN SubSeq(e.vol.text, 1, Find(e.vol.text, ":") - 1)
    ELSE e.vol.source

\* C18: extract_volumes returns one VolumeParameter for each bind-mount entry
\* of the manifest, in document order, with the entry's service and source,
\* and nothing for any other entry.
C18_OneParameterPerBindMount ==
    ret.done =>
        LET ents == IF arg.kind = "doc"
                    THEN VolumeEntriesFrom(arg.services.items, 1) ELSE <<>>
            binds == SelectSeq(ents, IsBindMount)
            out == ret.volumes
        IN /\ Len(out) = Len(binds)
           /\ \A i \in 1..Len(binds) :
                 /\ out[i].service = binds[i].service
                 /\ out[i].source = SourceOf(binds[i])

\* extract_volumes has returned for a manifest of two services where a named
\* volume stands before a bind mount and the second service has a bind mount
C18_Witness ==
    /\ ret.done
    /\ arg.kind = "doc"
    /\ LET ents == VolumeEntriesFrom(arg.services.items, 1)
       IN /\ \E i, j \in 1..Len(ents) :
                /\ i < j
                /\ ~IsBindMount(ents[i]) /\ ents[i].vol.kind = "str"
                /\ IsBindMount(ents[j])
                /\ ents[j].service = "db"
          /\ Len(ret.volumes) = Len(SelectSeq(ents, IsBindMount))
          /\ \E k \in 1..Len(ret.volumes) : ret.volumes[k].service = "db"

\* C19: the mode of every VolumeParameter extract_volumes returns is rw or ro.
C19_ModeIsRwOrRo ==
    ret.done => \A i \in 1..Len(ret.volumes) : ret.volumes[i].mode \in {rw, ro}

\* the key of an environment entry: of a pair of the mapping form, of a
\* KEY=VALUE item of the list form; <<>> for an item that has no key
KeyOf(env, i) ==
    IF env.kind = "map" THEN env.items[i][1]
    ELSE IF env.items[i].isstr /\ Find(env.items[i].text, "=") > 0
    THEN SubSeq(env.items[i].text, 1, Find(env.items[i].text, "=") - 1)
    ELSE <<>>

\* the entry an environment entry has to be after the overrides: the override
\* value under the same key if the key is an override key, the entry itself
\* otherwise
Overridden(env, i, overrides) ==
    IF KeyOf(env, i) \in DOMAIN overrides
    THEN IF env.kind = "map"
         THEN <<KeyOf(env, i), overrides[KeyOf(env, i)]>>
         ELSE [isstr |-> TRUE,
               text |-> KeyOf(env, i) \o <<"=">> \o overrides[KeyOf(env, i)]]
    ELSE env.items[i]

\* env2 is env with the overrides applied, entry by entry in the same order
SameOrderOverridden(env, env2, overrides) ==
    /\ env2.kind = env.kind
    /\ Len(env2.items) = Len(env.items)
    /\ \A i \in 1..Len(env.items) : env2.items[i] = Overridden(env, i, overrides)

\* env2 has the entries of env with the overrides applied: in the same order
\* for the list form, in any order for the mapping form
SameEntriesOverridden(env, env2, overrides) ==
    IF env.kind = "map"
    THEN /\ env2.kind = "map"
         /\ Len(env2.items) = Len(env.items)
         /\ {env2.items[i] : i \in 1..Len(env2.items)}
               = {Overridden(env, i, overrides) : i \in 1..Len(env.items)}
    ELSE SameOrderOverridden(env, env2, overrides)

\* the text apply_overrides returned holds the services of its argument, each
\* with the rest of its definition unchanged and its environment related to
\* the one of the argument by Rel; a manifest without services comes back as
\* it is
OverridesFrame(Rel(_, _, _)) ==
    ret.done =>
        IF arg.text.kind # "doc" \/ arg.text.services.kind = "absent"
        THEN ret.text = arg.text
        ELSE LET ins == arg.text.services.items
                 outs == LoadCompose(ret.text).services.items
             IN /\ Len(outs) = Len(ins)
                /\ \A i \in 1..Len(ins) :
                      \E o \in 1..Len(outs) :
                         /\ outs[o].name = ins[i].name
                         /\ outs[o].isdict = ins[i].isdict
                         /\ outs[o].image = ins[i].image
                         /\ IF ins[i].isdict
                            THEN Rel(ins[i].environment, outs[o].environment,
                                     arg.overrides)
                            ELSE outs[o].environment = ins[i].environment

\* C20 as stated: apply_overrides sets every environment entry whose key is
\* an override key, in both forms, and leaves unchanged the other entries,
\* the set and the order of the keys of each service and everything outside
\* the environments.
C20_OverridesKeepOrder == OverridesFrame(SameOrderOverridden)

\* C20: apply_overrides sets every environment entry whose key is an override
\* key, in both forms, and leaves unchanged the other entries, the set of
\* keys of each service, the order of the entries of the list form and
\* everything outside the environments; the keys of the mapping form come
\* back in any order.
C20_OverridesKeepEntries == OverridesFrame(SameEntriesOverridden)

\* apply_overrides has returned for overrides of PORT and a manifest with
\* PORT beside DEBUG in a mapping-form service and PORT=1 in a list-form one
C20_Witness ==
    /\ ret.done
    /\ PORT \in DOMAIN arg.overrides
    /\ arg.text.kind = "doc"
    /\ LET ins == arg.text.services.items
       IN /\ \E i \in 1..Len(ins) :
                /\ ins[i].environment.kind = "map"
                /\ Len(ins[i].environment.items) = 2
                /\ \E k \in 1..2 : ins[i].environment.items[k][1] = PORT
          /\ \E i \in 1..Len(ins) :
                /\ ins[i].environment.kind = "list"
                /\ \E k \in 1..Len(ins[i].environment.items) :
                      KeyOf(ins[i].environment, k) = PORT
    /\ ret.text # arg.text
    /\ LoadCompose(ret.text).services # arg.text.services

\* the entry a volume entry has to be after the overrides: its source
\* replaced if it is a bind mount whose source is an override key, the entry
\* itself otherwise
VolumeOverridden(vol, overrides) ==
    LET e == [service |-> "any", vol |-> vol]
    IN IF IsBindMount(e) /\ SourceOf(e) \in DOMAIN overrides
       THEN IF vol.kind = "str"
            THEN [vol EXCEPT !.text =
                     overrides[SourceOf(e)]
                     \o SubSeq(vol.text, Find(vol.text, ":"), Len(vol.text))]
            ELSE [vol EXCEPT !.source = overrides[vol.source]]
       ELSE vol

\* C21: apply_volume_overrides replaces the source of exactly the bind mounts
\* whose source is an override key, and leaves every other entry, every
\* target and every mode as it was.
C21_OnlyBindSourcesChange ==
    ret.done =>
        IF arg.text.kind # "doc" \/ arg.text.services.kind = "absent"
        THEN ret.text = arg.text
        ELSE LET ins == arg.text.services.items
                 outs == LoadCompose(ret.text).services.items
             IN /\ Len(outs) = Len(ins)
                /\ \A i \in 1..Len(ins) :
                      \E o \in 1..Len(outs) :
                         /\ outs[o].name = ins[i].name
                         /\ Len(outs[o].volumes) = Len(ins[i].volumes)
                         /\ \A j \in 1..Len(ins[i].volumes) :
                               outs[o].volumes[j] =
                                  VolumeOverridden(ins[i].volumes[j],
                                                   arg.overrides)

\* the number of spaces a line begins with
RECURSIVE Indentation(_)
Indentation(line) ==
    IF line # <<>> /\ line[1] = " " THEN 1 + Indentation(Tail(line)) ELSE 0

\* the services of a manifest in block style read back from its lines, line i
\* on: a name at indentation 2, image and environment at 4, the entries of
\* the environment at 6
RECURSIVE ReadLines(_, _, _)
ReadLines(lines, i, acc) ==
    IF i > Len(lines) THEN acc
    ELSE LET ind == Indentation(lines[i])
             body == SubSeq(lines[i], ind + 1, Len(lines[i]))
             n == Len(acc)
             colon == Find(body, ":")
         IN CASE ind = 2 ->
                   ReadLines(lines, i + 1,
                      Append(acc, [name |-> SubSeq(body, 1, Len(body) - 1),
                                   isdict |-> TRUE, image |-> "none",
                                   environment |->
                                      [kind |-> "other", items |-> <<>>]]))
              [] ind = 4 /\ HasAt(body, <<"i", "m", "a", "g", "e">>, 1) ->
                   ReadLines(lines, i + 1, [acc EXCEPT ![n].image = "img"])
              [] ind = 6 /\ HasAt(body, <<"-", " ">>, 1) ->
                   ReadLines(lines, i + 1,
                      [acc EXCEPT ![n].environment =
                          [kind |-> "list",
                           items |-> Append(@.items,
                              [isstr |-> TRUE,
                               text |-> SubSeq(body, 3, Len(body))])]])
              [] ind = 6 /\ colon > 0 ->
                   ReadLines(lines, i + 1,
                      [acc EXCEPT ![n].environment =
                          [kind |-> "map",
                           items |-> Append(@.items,
                              <<SubSeq(body, 1, colon - 1),
                                SubSeq(body, colon + 2, Len(body))>>)]])
              [] OTHER -> ReadLines(lines, i + 1, acc)

\* the services of a manifest text as yaml.safe_load reads them
ReadServices(text) == ReadLines(Split(text, NL), 1, <<>>)

\* the overrides of a request as a mapping
OverridesMap(overrides) ==
    [k \in {overrides[i][1] : i \in 1..Len(overrides)} |->
        overrides[CHOOSE i \in 1..Len(overrides) : overrides[i][1] = k][2]]

\* two environments are the same parsed structure: a mapping has the same
\* pairs whatever their order, a list the same items in the same order
SameEnvironment(a, b) ==
    /\ a.kind = b.kind
    /\ IF a.kind = "map"
       THEN {a.items[i] : i \in 1..Len(a.items)}
               = {b.items[i] : i \in 1..Len(b.items)}
       ELSE a.items = b.items

\* C22: the manifest deploy_stack submits for a raw text and env overrides is,
\* as a parsed structure, the result of apply_overrides on them: entries with
\* exactly an override key carry the override value in both environment
\* forms, and all other keys are unchanged.
C22_DeployEqualsOverrideApplier ==
    (ret.done /\ arg.app # <<>>) =>
        LET sent == ReadServices(ret.submitted[1].StackFileContent)
            want == OverrideServices(arg.app[1],
                                     OverridesMap(arg.env_overrides))
        IN /\ Len(sent) = Len(want)
           /\ \A i \in 1..Len(want) :
                 /\ sent[i].name = want[i].name
                 /\ sent[i].image = want[i].image
                 /\ SameEnvironment(sent[i].environment, want[i].environment)

\* the deployment reads the manifest it was given back as it was written
DeployTextReadsBack ==
    (ret.done /\ arg.app # <<>> /\ arg.env_overrides = <<>>) =>
        ReadServices(ret.submitted[1].StackFileContent) = arg.app[1]

\* some override of the request fails the validation of its inferred type
InvalidOverride(overrides) ==
    \E i \in 1..Len(overrides) :
       ~validate(infer_type(overrides[i][1]), overrides[i][2])

\* C23: a request with an override value that fails the validation of its
\* inferred type gets a validation error, and nothing with that value
\* applied is submitted.
C23_InvalidOverrideRejected ==
    (ret.done /\ arg.app # <<>> /\ InvalidOverride(arg.env_overrides)) =>
        /\ ret.status = "validation_error"
        /\ ret.submitted = <<>>

\* the pairs of a dict, whatever their order
PairsOf(d) == {d[i] : i \in 1..Len(d)}

\* C24: _flatten_env gives the same flat mapping for the list form and the
\* mapping form of the same pairs, and a value that holds '=' is cut from its
\* key at the first '=' only.
C24_FlattenFormsAgree ==
    ret.done =>
        /\ PairsOf(ret.fromList) = PairsOf(ret.fromMap)
        /\ PairsOf(ret.fromList) =
              {<<arg.pairs[i][1], StrOrEmpty(arg.pairs[i][2])>> :
                  i \in 1..Len(arg.pairs)}

\* two pairs flattened, one with a value that holds '=', from a list that
\* also holds an item without '='
C24_Witness ==
    /\ ret.done
    /\ Len(arg.pairs) = 2
    /\ arg.noise # <<>>
    /\ \E i \in 1..Len(ret.fromList) :
          ret.fromList[i] = <<<<"A">>, <<"a", "=", "b">>>>

\* C26: the main_service of an App parse_app produces is x-casaos.main when
\* that is present and not empty, and the first service of the manifest in
\* document order otherwise.
C26_MainServiceResolution ==
    Produced =>
        parsed.app.main_service =
            IF loaded.compose.main # "" THEN loaded.compose.main
            ELSE loaded.compose.services.items[1].name

\* an App produced from a manifest without x-casaos.main that declares two
\* services: the first of them is the main service
C26_Witness ==
    /\ Produced
    /\ loaded.compose.main = ""
    /\ Len(loaded.compose.services.items) = 2
    /\ parsed.app.main_service = loaded.compose.services.items[1].name
    /\ parsed.app.main_service # loaded.compose.services.items[2].name

\* the reconcile calls of a log that succeeded and whose scan found id k
ScansWith(lg, k) ==
    {i \in 1..Len(lg) : lg[i].ok /\ k \in DOMAIN lg[i].scanned}

\* the greatest member of a non-empty set of numbers
Latest(S) == CHOOSE i \in S : \A j \in S : j <= i

\* C25: after a reconcile of a repository has failed, a reconcile of the same
\* source can succeed whenever the remote has the branch: no failure leaves a
\* cache from which every later reconcile fails.
C25_FailureIsRecoverable ==
    [][\A p \in Threads :
          LET src == Cur(p)
              c == cache'[src.name]
          IN (pc[p] \in {"cu_begin", "cu_clone", "cu_reclone"} /\ Returned(p)
                /\ ~LastCall(log'[p]).ok
                /\ src.branch \in remote[src.url].branches)
             => \E o \in (IF c = Absent \/ c.url # src.url THEN CloneRepo(src)
                          ELSE UpdateRepo(src, c)) : o.ok]_vars

\* C27: when sync_all returns, an app id that the scans of several sources
\* produced maps to the App of the source that comes last of them in the
\* sources sequence, and to nothing else.
C27_LaterSourceWins ==
    \A p \in Threads :
        SyncAllDone(p) =>
            \A k \in AppIds :
                ScansWith(log[p], k) # {} =>
                    /\ k \in DOMAIN apps
                    /\ apps[k] = log[p][Latest(ScansWith(log[p], k))].scanned[k]
                    /\ apps[k].repository_source =
                          log[p][Latest(ScansWith(log[p], k))].name

\* a sync_all has returned in which the scans of r1 and of r2 both produced
\* nginx: the catalog has the App of r2
C27_Witness ==
    \E p \in Threads :
        /\ SyncAllDone(p)
        /\ Cardinality(ScansWith(log[p], "nginx")) = 2
        /\ log[p][1].name = "r1"
        /\ log[p][1].scanned["nginx"].repository_source = "r1"
        /\ apps["nginx"].repository_source = "r2"

\* C28: every key of the catalog maps to an App whose app_id is the key, and
\* the key is the lowercased name of the directory the App was scanned from.
C28_KeysAreLowercasedIds ==
    \A k \in DOMAIN apps :
        /\ apps[k].app_id = k
        /\ k = Lower(apps[k].source_dir)

\* the catalog has the App of directory Nginx under nginx after an on-demand
\* sync_repository
C28_Witness ==
    /\ "nginx" \in DOMAIN apps
    /\ apps["nginx"].source_dir = "Nginx"
    /\ op["http"] = "sync_repository" /\ pc["http"] = "done"

\* C30: a call of clone_or_update returns True or False, and it returns True
\* only when the cache directory of the source exists with the url of the
\* source as its origin.
C30_TrueMeansCacheOfSource ==
    [][\A p \in Threads :
          (pc[p] \in {"cu_begin", "cu_clone", "cu_reclone"} /\ Returned(p)) =>
              LET src == Cur(p)
                  e == LastCall(log'[p])
              IN /\ e.ok \in BOOLEAN
                 /\ e.ok => /\ cache'[src.name] # Absent
                            /\ cache'[src.name].url = src.url]_vars

\* one operation has reconciled r1 through the re-clone path with success and
\* r2 with a failure
C30_Witness ==
    \E p \in Threads :
        /\ Len(log[p]) = 2
        /\ log[p][1].ok /\ log[p][1].path = "reclone"
        /\ cache["r1"] # Absent /\ cache["r1"].url = db["r1"].url
        /\ ~log[p][2].ok

\* the catalog one uninterrupted sync_all leaves whose reconciles and scans
\* returned what the log says: every id found, with the App of the last
\* source that produced it
SingleSyncCatalog(lg) ==
    [k \in {id \in AppIds : ScansWith(lg, id) # {}} |->
        lg[Latest(ScansWith(lg, k))].scanned[k]]

\* the reconciles and the scans of two calls returned the same
SameResults(a, b) ==
    /\ Len(a) = Len(b)
    /\ \A i \in 1..Len(a) :
          /\ a[i].name = b[i].name
          /\ a[i].ok = b[i].ok
          /\ a[i].scanned = b[i].scanned

\* C29: when two sync_all calls over the same source list, whose reconciles
\* and scans returned the same results, have both come to their end, the
\* catalog is the one a single sync_all with these results leaves, however
\* their steps interleaved.
C29_OverlappingSyncsAgree ==
    (SyncAllDone("sched") /\ SyncAllDone("http")
        /\ repositories["sched"] = repositories["http"]
        /\ SameResults(log["sched"], log["http"]))
        => apps = SingleSyncCatalog(log["sched"])

\* two sync_all calls that ran at the same time have both come to their end:
\* each reconciled a repository while the other was inside its loop, and both
\* found nginx in r1 and in r2
C29_Witness ==
    /\ SyncAllDone("sched") /\ SyncAllDone("http")
    /\ repositories["sched"] = repositories["http"]
    /\ SameResults(log["sched"], log["http"])
    /\ \A p \in Threads : \E i \in 1..Len(log[p]) : log[p][i].overlap
    /\ Cardinality(ScansWith(log["sched"], "nginx")) = 2
    /\ apps["nginx"].repository_source = "r2"

====
